---- MODULE Spec2Model ----
(***************************************************************************)
(* The level store (src/src/store/levelStore.ts), its remote record client *)
(* (src/src/services/api.ts) and the auth store whose user it checks       *)
(* (src/src/store/authStore.ts).                                           *)
(*                                                                         *)
(* levels, loading, error : the fields of the zustand level store          *)
(* user, isAuthenticated, authError, fadeOut : the fields of the zustand   *)
(*                          auth store (authError is its error field)      *)
(* pending                : the login calls waiting on their 1000 ms timer,*)
(*                          oldest first                                   *)
(* remote                 : the level records held by the remote service   *)
(* flight                 : the level store operations that have been      *)
(*                          started and wait on the remote service, with   *)
(*                          what each holds in its local constants         *)
(* last                   : the operation that ran last, how it ended and  *)
(*                          the remote calls it issued (in order)          *)
(* ops                    : number of operations invoked so far            *)
(* script                 : what the caller driving a scenario remembers   *)
(*                          of it (<<>> when operations are invoked freely)*)
(* legacy                 : the levels of the local-only level store       *)
(*                          (src/unnamed/part_000, lines 1-170)            *)
(***************************************************************************)
EXTENDS Integers, Sequences, FiniteSets, TLC

VARIABLES levels, loading, error, user, isAuthenticated, authError, fadeOut,
          pending, remote, flight, last, ops, script, legacy

\* the auth store and the login calls waiting on their timer
session == <<user, isAuthenticated, authError, fadeOut, pending>>

vars == <<levels, loading, error, session, remote, flight, last, ops, script,
         legacy>>

\* ------------------------------------------------------------------ bounds
\* Operations invoked in one behaviour of Spec.
MaxOps == 2
\* addWarning calls made in one behaviour of SpecWarnings.
MaxAddWarnings == 4
\* toggleTask calls made in one behaviour of SpecProgress.
MaxToggles == 1
\* Operations started in one behaviour of SpecOverlap.
MaxCalls == 2
\* toggleTask calls made on each store in one behaviour of SpecLegacy.
MaxLegacyToggles == 6

\* ------------------------------------------------------- program constants
NumLevels == 5
TasksPerLevel == 5

\* ------------------------------------------------------------ identifiers
\* A JavaScript identifier value: the string "3" and the number 3 are
\* different values under ===, and the same text in a URL.
StrId(n) == [kind |-> "string", val |-> n]
NumId(n) == [kind |-> "number", val |-> n]
toString(id) == [kind |-> "string", val |-> id.val]
parseInt(id) == id.val

\* null, for the error field and for the auth store's user
Null == "null"
NoUser == [email |-> "null", role |-> "null"]

\* ------------------------------------------------------------- auth store
AUTHORIZED_USERS ==
  { [email |-> "guillaiume@ministry.gov", role |-> "PARTY_MEMBER"],
    [email |-> "cyril@ministry.gov", role |-> "PARTY_MEMBER"],
    [email |-> "sarantos@ministry.gov", role |-> "PARTY_MEMBER"],
    [email |-> "aytac@ministry.gov", role |-> "PARTY_MEMBER"],
    [email |-> "ronan@ministry.gov", role |-> "INNER_CIRCLE"],
    [email |-> "proletariat@ministry.gov", role |-> "OBSERVER"] }

AUTHORIZED_ROLES == {"INNER_CIRCLE", "PARTY_MEMBER"}

hasEditPermissionAnyUser(u) == u # NoUser
\* hasEditPermission granting the Inner Circle only
hasEditPermissionInnerCircle(u) == u # NoUser /\ u.role = "INNER_CIRCLE"

hasEditPermission(u) == u # NoUser /\ u.role \in AUTHORIZED_ROLES

\* ------------------------------------------------------- default template
LevelName ==
  <<"STABILIZE THE PARTY", "ROOT OUT AGENTS", "INFORM THE INNER PARTY",
    "RESILIANCE. FORTITUDE.", "GLORY TO IGOR">>

LevelDescription ==
  <<"MANDATORY SURVEILLANCE PROTOCOLS ACTIVATED",
    "SYSTEMATIC IDENTIFICATION OF DISSIDENT ELEMENTS",
    "DIRECT COMMUNICATION LINE TO CENTRAL COMMAND",
    "MAXIMUM RESPONSE TIME: 180 MINUTES",
    "ULTIMATE LOYALTY ACHIEVED">>

TaskText ==
  << <<"ESTABLISH MONITORING PROTOCOLS", "IMPLEMENT SURVEILLANCE SYSTEMS",
       "VERIFY COMMUNICATION CHANNELS", "SECURE PARTY INFRASTRUCTURE",
       "ACTIVATE EMERGENCY PROTOCOLS">>,
     <<"IDENTIFY SUSPICIOUS PATTERNS", "ANALYZE BEHAVIORAL ANOMALIES",
       "TRACK DISSIDENT ACTIVITIES", "REPORT SUSPICIOUS BEHAVIOR",
       "ELIMINATE SECURITY THREATS">>,
     <<"COMPILE INCIDENT REPORTS", "UPDATE CENTRAL DATABASE",
       "DOCUMENT ALL DEVIATIONS", "MAINTAIN SECURE CHANNELS",
       "ARCHIVE ALL COMMUNICATIONS">>,
     <<"OPTIMIZE RESPONSE TIMES", "ELIMINATE INEFFICIENCIES",
       "MAXIMIZE PRODUCTIVITY", "ENFORCE TIME PROTOCOLS",
       "ACHIEVE PERFECT METRICS">>,
     <<"DEMONSTRATE TOTAL LOYALTY", "EXCEED ALL EXPECTATIONS",
       "ACHIEVE SUPREME EFFICIENCY", "EMBODY PARTY PRINCIPLES",
       "ETERNAL SERVICE TO IGOR">> >>

initialLevels ==
  [i \in 1..NumLevels |->
    [id |-> StrId(i),
     name |-> LevelName[i],
     description |-> LevelDescription[i],
     isActive |-> (i = 1),
     warnings |-> 0,
     tasks |-> [j \in 1..TasksPerLevel |->
                 [id |-> StrId(j), text |-> TaskText[i][j], completed |-> FALSE]]]]

\* ---------------------------------------------------------------- helpers
\* FindIndex giving the first element when no element has the id
FindIndexOrFirst(arr, id) ==
  IF \E i \in DOMAIN arr : arr[i].id = id
    THEN CHOOSE i \in DOMAIN arr : arr[i].id = id
    ELSE 1

\* Array.prototype.find: the index of the first element with this id, 0 for
\* undefined.
FindIndex(arr, id) ==
  IF \E i \in DOMAIN arr : arr[i].id = id
    THEN CHOOSE i \in DOMAIN arr :
           arr[i].id = id /\ \A k \in DOMAIN arr : arr[k].id = id => i <= k
    ELSE 0

\* updatedTasks setting the flag on every task of the level
updatedTasksEvery(tasks, taskId, completed) ==
  [j \in DOMAIN tasks |-> [tasks[j] EXCEPT !.completed = completed]]

\* level.tasks.map(t => t.id === taskId ? { ...t, completed } : t)
updatedTasks(tasks, taskId, completed) ==
  [j \in DOMAIN tasks |->
    IF tasks[j].id = taskId THEN [tasks[j] EXCEPT !.completed = completed]
                            ELSE tasks[j]]

allTasksCompleted(tasks) == \A j \in DOMAIN tasks : tasks[j].completed

RECURSIVE SumSeq(_)
SumSeq(s) == IF s = <<>> THEN 0 ELSE Head(s) + SumSeq(Tail(s))

\* level.tasks.filter(task => task.completed).length
completedTasks(level) ==
  Cardinality({j \in DOMAIN level.tasks : level.tasks[j].completed})

\* ------------------------------------------- JavaScript number arithmetic
\* calculateLevelProgress and calculateOverallProgress compute
\* (completed / total) * 100 on IEEE-754 doubles: each of / and * rounds its
\* exact result to 53 significant bits, to nearest, ties to even. A natural
\* number of any size is a sequence of bits, least significant first, without
\* high zero bits; a double d >= 0 is [kind, exp, man]: the value of man (53
\* bits, least significant first) times 2^(exp - 52), man all 0 for zero.
MantissaBits == 53
\* the w low bits of n
FixedBits(n, w) == [i \in 1..w |-> (n \div (2^(i - 1))) % 2]

\* without the high zero bits
Norm(a) ==
  IF \E i \in DOMAIN a : a[i] = 1
    THEN SubSeq(a, 1, CHOOSE i \in DOMAIN a :
                        a[i] = 1 /\ \A k \in (i + 1)..Len(a) : a[k] = 0)
    ELSE <<>>

NatBits(n) == Norm(FixedBits(n, 31))

Bit(a, i) == IF i \in DOMAIN a THEN a[i] ELSE 0

\* the value of the m-th group of 15 bits of a (m >= 1)
Limb(a, m) == SumSeq([k \in 1..15 |-> Bit(a, 15 * (m - 1) + k) * 2^(k - 1)])

\* the carry into the m-th group of 15 bits of a + b
RECURSIVE CarryIn(_, _, _)
CarryIn(a, b, m) ==
  IF m = 1 THEN 0
  ELSE (Limb(a, m - 1) + Limb(b, m - 1) + CarryIn(a, b, m - 1)) \div 2^15

AddBits(a, b) ==
  LET n == ((IF Len(a) > Len(b) THEN Len(a) ELSE Len(b)) \div 15) + 1
      sums == SubSeq([m \in 1..n |->
                       (Limb(a, m) + Limb(b, m) + CarryIn(a, b, m)) % 2^15], 1, n)
  IN Norm([i \in 1..(15 * n + 1) |->
            IF i = 15 * n + 1 THEN CarryIn(a, b, n + 1)
            ELSE (sums[((i - 1) \div 15) + 1] \div 2^((i - 1) % 15)) % 2])

RECURSIVE MulBits(_, _)
MulBits(a, b) ==
  IF b = <<>> THEN <<>>
  ELSE LET rest == MulBits(a, Tail(b))
           shifted == IF rest = <<>> THEN <<>> ELSE <<0>> \o rest
       IN IF Head(b) = 0 THEN shifted
          ELSE IF shifted = <<>> THEN a
          ELSE AddBits(a, shifted)

\* floor(num * 2^64 / den) and whether anything is left over, by long division,
\* 16 bits at a time (operands below 2^15, so every dividend stays below 2^31):
\* 64 fraction bits are more than the 53 the quotient is rounded to.
LongDiv(num, den) ==
  LET base == 2^16
      r0 == num % den
      c1 == (r0 * base) \div den
      r1 == (r0 * base) % den
      c2 == (r1 * base) \div den
      r2 == (r1 * base) % den
      c3 == (r2 * base) \div den
      r3 == (r2 * base) % den
      c4 == (r3 * base) \div den
      r4 == (r3 * base) % den
  IN [q |-> Norm(FixedBits(c4, 16) \o FixedBits(c3, 16)
                 \o FixedBits(c2, 16) \o FixedBits(c1, 16)
                 \o NatBits(num \div den)),
      inexact |-> r4 # 0]

Zero == [kind |-> "finite", exp |-> 0, man |-> [i \in 1..MantissaBits |-> 0]]
NaN == [kind |-> "NaN", exp |-> 0, man |-> [i \in 1..MantissaBits |-> 0]]
Infinity == [kind |-> "Infinity", exp |-> 0, man |-> [i \in 1..MantissaBits |-> 0]]

\* The double nearest to p * 2^s (ties to even), p a natural number in bits.
RoundToDouble(p, s) ==
  LET len == Len(p)
      drop == len - MantissaBits
  IN IF len = 0 THEN Zero
     ELSE IF drop <= 0
       THEN [kind |-> "finite", exp |-> len - 1 + s,
             man |-> [i \in 1..(-drop) |-> 0] \o p]
       ELSE LET kept == SubSeq(p, drop + 1, len)
                guard == p[drop]
                sticky == \E i \in 1..(drop - 1) : p[i] = 1
                up == guard = 1 /\ (sticky \/ kept[1] = 1)
                sum == IF up THEN AddBits(kept, <<1>>) ELSE kept
            IN IF Len(sum) > MantissaBits
                 THEN [kind |-> "finite", exp |-> len + s,
                       man |-> SubSeq(sum, 2, Len(sum))]
                 ELSE [kind |-> "finite", exp |-> len - 1 + s, man |-> sum]

\* a number that is an integer n >= 0
fromInt(n) == RoundToDouble(NatBits(n), 0)

\* a / b for integers a, b >= 0
fdiv(a, b) ==
  IF b = 0 THEN (IF a = 0 THEN NaN ELSE Infinity)
  ELSE LET d == LongDiv(a, b)
       IN RoundToDouble(Norm(<<IF d.inexact THEN 1 ELSE 0>> \o d.q),
                        -65)

\* x * n for a double x >= 0 and an integer n > 0
fmul(x, n) ==
  IF x.kind # "finite" THEN x
  ELSE RoundToDouble(MulBits(Norm(x.man), NatBits(n)), x.exp - (MantissaBits - 1))

\* calculateLevelProgress dividing by the number of tasks of all levels
levelProgressOfAllTasks(ls, levelId) ==
  LET i == FindIndex(ls, levelId) IN
  IF i = 0 THEN fromInt(0)
  ELSE fmul(fdiv(completedTasks(ls[i]), Len(ls) * 5), 100)

\* (completedTasks / level.tasks.length) * 100, 0 for a level not found
calculateLevelProgress(ls, levelId) ==
  LET i == FindIndex(ls, levelId) IN
  IF i = 0 THEN fromInt(0)
  ELSE fmul(fdiv(completedTasks(ls[i]), Len(ls[i].tasks)), 100)

\* calculateOverallProgress dividing by the number of levels, not of tasks
overallProgressPerLevel(ls) ==
  fmul(fdiv(SumSeq([i \in DOMAIN ls |-> completedTasks(ls[i])]), Len(ls)), 100)

\* calculateOverallProgress multiplying by 100 before it divides
overallProgressTimesFirst(ls) ==
  fdiv(SumSeq([i \in DOMAIN ls |-> completedTasks(ls[i])]) * 100, Len(ls) * 5)

\* totalTasks = state.levels.length * 5; (completedTasks / totalTasks) * 100
calculateOverallProgress(ls) ==
  fmul(fdiv(SumSeq([i \in DOMAIN ls |-> completedTasks(ls[i])]), Len(ls) * 5), 100)

\* ------------------------------------------------- remote record client
\* A remote call of an operation: GET /levels, or PUT /levels/<id> with a
\* full level record as body.
GET == [method |-> "GET", id |-> StrId(0), data |-> <<>>]
PUT(levelId, data) == [method |-> "PUT", id |-> levelId, data |-> data]

\* The URL /levels/${levelId} names the record whose id has this text.
RemoteIndex(rem, levelId) ==
  IF \E i \in DOMAIN rem : rem[i].id.val = levelId.val
    THEN CHOOSE i \in DOMAIN rem : rem[i].id.val = levelId.val
    ELSE 0

\* api.updateLevel on a reachable service: the record is replaced by the body.
updateLevel(rem, levelId, data) ==
  [i \in DOMAIN rem |-> IF i = RemoteIndex(rem, levelId) THEN data ELSE rem[i]]

\* The k-th call of a plan fails when the network fails it (fail = k) or the
\* service answers a non-success status (PUT of a record it does not hold):
\* response.ok is false and the client throws.
FailsAt(rem, plan, fail, k) ==
  \/ k = fail
  \/ plan[k].method = "PUT" /\ RemoteIndex(rem, plan[k].id) = 0

\* The first call that throws, 0 when all succeed.
FirstFail(rem, plan, fail) ==
  IF \E k \in 1..Len(plan) : FailsAt(rem, plan, fail, k)
    THEN CHOOSE k \in 1..Len(plan) :
           /\ FailsAt(rem, plan, fail, k)
           /\ \A m \in 1..(k - 1) : ~FailsAt(rem, plan, fail, m)
    ELSE 0

\* The remote records after the first n calls of the plan succeeded.
RECURSIVE Applied(_, _, _)
Applied(rem, plan, n) ==
  IF n = 0 THEN rem
  ELSE LET before == Applied(rem, plan, n - 1) IN
       IF plan[n].method = "PUT"
         THEN updateLevel(before, plan[n].id, plan[n].data)
         ELSE before

\* Which remote call of a plan the network fails (0: none).
Failures(plan) == 0..Len(plan)

\* Run with a client that logs a failed call and does not rethrow it.
RunSwallowingErrors(rem, plan, fail) ==
  LET ff == FirstFail(rem, plan, fail)
      issued == IF ff = 0 THEN Len(plan) ELSE ff
  IN [remote |-> Applied(rem, plan, IF ff = 0 THEN Len(plan) ELSE ff - 1),
      thrown |-> FALSE,
      calls |-> [k \in 1..issued |->
                  [method |-> plan[k].method, id |-> plan[k].id.val, ok |-> k # ff]]]

\* Awaiting the calls of a plan one after the other; the first throw ends it.
\* thrown: an exception reached the operation's catch block.
Run(rem, plan, fail) ==
  LET ff == FirstFail(rem, plan, fail)
      issued == IF ff = 0 THEN Len(plan) ELSE ff
  IN [remote |-> Applied(rem, plan, IF ff = 0 THEN Len(plan) ELSE ff - 1),
      thrown |-> ff # 0,
      calls |-> [k \in 1..issued |->
                  [method |-> plan[k].method, id |-> plan[k].id.val, ok |-> k # ff]]]

\* api.updateTask: list the levels, find the level by ===, replace it with the
\* task's flag set. found = FALSE: "Level not found" is thrown after the GET.
updateTaskPlan(rem, levelId, taskId, completed) ==
  LET r == FindIndex(rem, levelId) IN
  IF r = 0 THEN <<GET>>
  ELSE <<GET, PUT(levelId, [rem[r] EXCEPT
                    !.tasks = updatedTasks(rem[r].tasks, taskId, completed)])>>

updateTaskThrows(rem, levelId) == FindIndex(rem, levelId) = 0

\* ------------------------------------------------------- store operations
DENIED == "ACCESS DENIED: INSUFFICIENT CLEARANCE LEVEL"

\* target: the number in the id of the level the operation was aimed at (0 for
\* resetLevels and fetchLevels).
Done(op, target, outcome, calls) ==
  [op |-> op, target |-> target, outcome |-> outcome, calls |-> calls]

\* if (!hasEditPermission()) { set({ error: DENIED, loading: false }); return; }
Deny(op, target) ==
  /\ ~hasEditPermission(user)
  /\ error' = DENIED
  /\ loading' = FALSE
  /\ last' = Done(op, target, "denied", <<>>)
  /\ UNCHANGED <<levels, remote, session, flight>>

\* set({ loading: true, error: null }) and then a bare return inside try.
EarlyReturn(op, target) ==
  /\ loading' = TRUE
  /\ error' = Null
  /\ last' = Done(op, target, "noop", <<>>)
  /\ UNCHANGED <<levels, remote, session, flight>>

\* Caught undoing the remote writes that had succeeded before the throw
CaughtRollingBack(op, target, message, r) ==
  /\ error' = message
  /\ loading' = FALSE
  /\ remote' = remote
  /\ last' = Done(op, target, "failed", r.calls)
  /\ UNCHANGED <<levels, session, flight>>

\* Caught leaving the loading flag as the operation's first set made it
CaughtStillLoading(op, target, message, r) ==
  /\ error' = message
  /\ loading' = TRUE
  /\ remote' = r.remote
  /\ last' = Done(op, target, "failed", r.calls)
  /\ UNCHANGED <<levels, session, flight>>

\* catch (error) { set({ error: message, loading: false }) }
Caught(op, target, message, r) ==
  /\ error' = message
  /\ loading' = FALSE
  /\ remote' = r.remote
  /\ last' = Done(op, target, "failed", r.calls)
  /\ UNCHANGED <<levels, session, flight>>

\* the awaited calls returned: set(state => ({ levels: ..., loading: false }))
Commit(op, target, newLevels, r) ==
  /\ levels' = newLevels
  /\ loading' = FALSE
  /\ error' = Null
  /\ remote' = r.remote
  /\ last' = Done(op, target, "ok", r.calls)
  /\ UNCHANGED <<session, flight>>

\* updatedCurrentLevel with completed: true in place of !task.completed
updatedCurrentLevelSetsTrue(level, taskId) ==
  LET tasks == updatedTasks(level.tasks, taskId, TRUE)
  IN [level EXCEPT !.tasks = tasks, !.isActive = ~allTasksCompleted(tasks)]

\* updatedCurrentLevel leaving isActive as it was
updatedCurrentLevelStaysActive(level, taskId) ==
  LET tasks == updatedTasks(level.tasks, taskId,
                            ~level.tasks[FindIndex(level.tasks, taskId)].completed)
  IN [level EXCEPT !.tasks = tasks]

\* isActive: allTasksCompleted ? false : true
updatedCurrentLevel(level, taskId) ==
  LET tasks == updatedTasks(level.tasks, taskId,
                            ~level.tasks[FindIndex(level.tasks, taskId)].completed)
  IN [level EXCEPT !.tasks = tasks, !.isActive = ~allTasksCompleted(tasks)]

nextLevelId(levelId) == toString(NumId(parseInt(levelId) + 1))

\* cascades with the test of nextLevel.isActive inverted
cascadesIfActive(ls, levelId, taskId) ==
  LET i == FindIndex(ls, levelId)
      n == FindIndex(ls, toString(NumId(parseInt(levelId) + 1)))
      tasks == updatedTasks(ls[i].tasks, taskId,
                            ~ls[i].tasks[FindIndex(ls[i].tasks, taskId)].completed)
  IN allTasksCompleted(tasks) /\ n # 0 /\ ls[n].isActive

\* allTasksCompleted && nextLevel && !nextLevel.isActive
cascades(ls, levelId, taskId) ==
  LET i == FindIndex(ls, levelId)
      n == FindIndex(ls, nextLevelId(levelId))
  IN /\ allTasksCompleted(updatedCurrentLevel(ls[i], taskId).tasks)
     /\ n # 0
     /\ ~ls[n].isActive

\* togglePlan writing the current level's final record before the next level
togglePlanCurrentFirst(ls, rem, levelId, taskId) ==
  LET i == FindIndex(ls, levelId)
      j == FindIndex(ls[i].tasks, taskId)
      n == FindIndex(ls, nextLevelId(levelId))
      first == updateTaskPlan(rem, levelId, taskId, ~ls[i].tasks[j].completed)
  IN IF updateTaskThrows(rem, levelId) THEN first
     ELSE first
          \o <<PUT(levelId, updatedCurrentLevel(ls[i], taskId))>>
          \o (IF cascades(ls, levelId, taskId)
                THEN <<PUT(nextLevelId(levelId), [ls[n] EXCEPT !.isActive = TRUE])>>
                ELSE <<>>)

\* The remote calls toggleTask awaits, in order.
togglePlan(ls, rem, levelId, taskId) ==
  LET i == FindIndex(ls, levelId)
      j == FindIndex(ls[i].tasks, taskId)
      n == FindIndex(ls, nextLevelId(levelId))
      first == updateTaskPlan(rem, levelId, taskId, ~ls[i].tasks[j].completed)
  IN IF updateTaskThrows(rem, levelId) THEN first
     ELSE first
          \o (IF cascades(ls, levelId, taskId)
                THEN <<PUT(nextLevelId(levelId), [ls[n] EXCEPT !.isActive = TRUE])>>
                ELSE <<>>)
          \o <<PUT(levelId, updatedCurrentLevel(ls[i], taskId))>>

\* toggleCommit without the replacement of the next level
toggleCommitCurrentOnly(ls, levelId, taskId) ==
  [k \in DOMAIN ls |->
    IF ls[k].id = levelId
      THEN updatedCurrentLevel(ls[FindIndex(ls, levelId)], taskId)
      ELSE ls[k]]

\* toggleCommit keeping only the level it rebuilt (filter in place of map)
toggleCommitRebuiltOnly(ls, levelId, taskId) ==
  <<updatedCurrentLevel(ls[FindIndex(ls, levelId)], taskId)>>

\* state.levels.map(l => ...) of toggleTask's final set
toggleCommit(ls, levelId, taskId) ==
  LET i == FindIndex(ls, levelId)
      n == FindIndex(ls, nextLevelId(levelId))
      casc == cascades(ls, levelId, taskId)
  IN [k \in DOMAIN ls |->
       IF ls[k].id = levelId THEN updatedCurrentLevel(ls[i], taskId)
       ELSE IF ls[k].id = nextLevelId(levelId) /\ casc
              THEN [ls[n] EXCEPT !.isActive = TRUE]
              ELSE ls[k]]

\* returnsEarly without the test of level.isActive
returnsEarlyIfMissing(ls, levelId, taskId) ==
  LET i == FindIndex(ls, levelId) IN
  i = 0 \/ FindIndex(ls[i].tasks, taskId) = 0

\* if (!level || !level.isActive) return; ... if (!task) return;
returnsEarly(ls, levelId, taskId) ==
  LET i == FindIndex(ls, levelId) IN
  i = 0 \/ ~ls[i].isActive \/ FindIndex(ls[i].tasks, taskId) = 0

toggleTask(levelId, taskId) ==
  \/ Deny("toggleTask", levelId.val)
  \/ /\ hasEditPermission(user)
     /\ IF returnsEarly(levels, levelId, taskId)
          THEN EarlyReturn("toggleTask", levelId.val)
          ELSE \E fail \in Failures(togglePlan(levels, remote, levelId, taskId)) :
               LET r == Run(remote, togglePlan(levels, remote, levelId, taskId), fail)
               IN IF r.thrown \/ updateTaskThrows(remote, levelId)
                    THEN Caught("toggleTask", levelId.val,
                                "Failed to toggle task", r)
                    ELSE Commit("toggleTask", levelId.val,
                                toggleCommit(levels, levelId, taskId), r)

\* addWarning counting the warning twice in the local levels
addWarningTwice(levelId) ==
  \/ Deny("addWarning", levelId.val)
  \/ /\ hasEditPermission(user)
     /\ LET i == FindIndex(levels, levelId) IN
        IF i = 0 THEN EarlyReturn("addWarning", levelId.val)
        ELSE \E fail \in 0..1 :
             LET updatedLevel == [levels[i] EXCEPT !.warnings = @ + 1]
                 r == Run(remote, <<PUT(levelId, updatedLevel)>>, fail)
             IN IF r.thrown
                  THEN Caught("addWarning", levelId.val, "Failed to add warning", r)
                  ELSE Commit("addWarning", levelId.val,
                              [k \in DOMAIN levels |->
                                IF levels[k].id = levelId
                                  THEN [levels[k] EXCEPT !.warnings = @ + 2]
                                  ELSE levels[k]], r)

addWarning(levelId) ==
  \/ Deny("addWarning", levelId.val)
  \/ /\ hasEditPermission(user)
     /\ LET i == FindIndex(levels, levelId) IN
        IF i = 0 THEN EarlyReturn("addWarning", levelId.val)
        ELSE \E fail \in 0..1 :
             LET updatedLevel == [levels[i] EXCEPT !.warnings = @ + 1]
                 r == Run(remote, <<PUT(levelId, updatedLevel)>>, fail)
             IN IF r.thrown
                  THEN Caught("addWarning", levelId.val, "Failed to add warning", r)
                  ELSE Commit("addWarning", levelId.val,
                              [k \in DOMAIN levels |->
                                IF levels[k].id = levelId
                                  THEN [levels[k] EXCEPT !.warnings = @ + 1]
                                  ELSE levels[k]], r)

\* activate negating the target level's isActive
activateNegating(op, targetId, message) ==
  \/ Deny(op, targetId.val)
  \/ /\ hasEditPermission(user)
     /\ LET i == FindIndex(levels, targetId) IN
        IF i = 0 THEN EarlyReturn(op, targetId.val)
        ELSE \E fail \in 0..1 :
             LET r == Run(remote,
                          <<PUT(targetId, [levels[i] EXCEPT !.isActive = ~@])>>, fail)
             IN IF r.thrown
                  THEN Caught(op, targetId.val, message, r)
                  ELSE Commit(op, targetId.val,
                              [k \in DOMAIN levels |->
                                IF levels[k].id = targetId
                                  THEN [levels[k] EXCEPT !.isActive = ~@]
                                  ELSE levels[k]], r)

\* Shared body of activateNextLevel and unlockLevel: the target level is
\* written with isActive: true and then set so locally.
activate(op, targetId, message) ==
  \/ Deny(op, targetId.val)
  \/ /\ hasEditPermission(user)
     /\ LET i == FindIndex(levels, targetId) IN
        IF i = 0 THEN EarlyReturn(op, targetId.val)
        ELSE \E fail \in 0..1 :
             LET r == Run(remote,
                          <<PUT(targetId, [levels[i] EXCEPT !.isActive = TRUE])>>, fail)
             IN IF r.thrown
                  THEN Caught(op, targetId.val, message, r)
                  ELSE Commit(op, targetId.val,
                              [k \in DOMAIN levels |->
                                IF levels[k].id = targetId
                                  THEN [levels[k] EXCEPT !.isActive = TRUE]
                                  ELSE levels[k]], r)

\* currentLevelId is a number; the target is (currentLevelId + 1).toString()
activateNextLevel(currentLevelId) ==
  activate("activateNextLevel",
           toString(NumId(currentLevelId + 1)), "Failed to activate next level")

\* levelId is a number; the target is levelId.toString()
unlockLevel(levelId) ==
  activate("unlockLevel", toString(NumId(levelId)),
           "Failed to unlock level")

\* The methods of the api object (services/api.ts). Calling a property the
\* object does not have throws a TypeError before any request is made.
apiMethods == {"getLevels", "updateLevel", "updateTask", "getLevel"}

\* try { await api.resetLevels(); set({ levels: initialLevels, loading: false }) }
resetLevels ==
  \/ Deny("resetLevels", 0)
  \/ /\ hasEditPermission(user)
     /\ IF "resetLevels" \in apiMethods
          THEN Commit("resetLevels", 0, initialLevels,
                      [remote |-> initialLevels, thrown |-> FALSE, calls |-> <<>>])
          ELSE Caught("resetLevels", 0, "Failed to reset levels",
                      [remote |-> remote, thrown |-> TRUE, calls |-> <<>>])

\* levelsWithStringIds storing the records as the service returned them
levelsAsFetched(ls) == ls

\* levels.map(level => ({ ...level, id: level.id.toString(), tasks: ... }))
levelsWithStringIds(ls) ==
  [i \in DOMAIN ls |->
    [ls[i] EXCEPT !.id = toString(@),
                  !.tasks = [j \in DOMAIN @ |-> [@[j] EXCEPT !.id = toString(@)]]]]

\* fetchLevels keeping the levels it had when api.getLevels() throws
fetchKeepsLevels(ls) == ls

\* The levels fetchLevels leaves when api.getLevels() throws:
\* set({ error, loading: false }); set({ levels: initialLevels })
fetchFallback(ls) == initialLevels

fetchLevels ==
  \E fail \in 0..1 :
  LET r == Run(remote, <<GET>>, fail) IN
  /\ loading' = FALSE
  /\ remote' = r.remote
  /\ UNCHANGED <<session, flight>>
  /\ IF r.thrown
       THEN /\ error' = "Failed to fetch levels"
            /\ levels' = fetchFallback(levels)
            /\ last' = Done("fetchLevels", 0, "failed", r.calls)
       ELSE /\ error' = Null
            /\ levels' = levelsWithStringIds(remote)
            /\ last' = Done("fetchLevels", 0, "ok", r.calls)

\* ---------------------------------------------------------- specification
\* The session the auth store rehydrates from its persisted state: nobody,
\* or an entry of the allow-list (one of each role).
SessionUsers ==
  {NoUser} \cup {u \in AUTHORIZED_USERS :
                  u.email \in {"cyril@ministry.gov", "ronan@ministry.gov",
                               "proletariat@ministry.gov"}}

\* The auth store after construction and rehydration: isAuthenticated and
\* user come from the persisted state, error and fadeOut are not persisted.
Rehydrated ==
  /\ isAuthenticated = (user # NoUser)
  /\ authError = Null
  /\ fadeOut = FALSE
  /\ pending = <<>>

\* A collection in which the levels below n are completed, level n is in
\* progress with its first c tasks completed, and the levels above are locked.
Advanced(n, c) ==
  [i \in 1..NumLevels |->
    [initialLevels[i] EXCEPT
       !.isActive = (i = n),
       !.tasks = [j \in DOMAIN @ |->
                   [@[j] EXCEPT !.completed = (i < n \/ (i = n /\ j <= c))]]]]

\* const data = await response.json(): the service may serialise the ids of
\* its records as numbers (the store calls id.toString() on what it receives).
WithNumberIds(ls) ==
  [i \in DOMAIN ls |->
    [ls[i] EXCEPT !.id = NumId(@.val),
                  !.tasks = [j \in DOMAIN @ |-> [@[j] EXCEPT !.id = NumId(@.val)]]]]

\* What the remote service holds when the session starts.
RemoteSeeds ==
  {initialLevels, Advanced(1, TasksPerLevel - 1), Advanced(NumLevels, TasksPerLevel - 1),
   WithNumberIds(Advanced(1, TasksPerLevel - 1))}

LevelIds == {StrId(n) : n \in 1..(NumLevels + 1)}
TaskIds == {StrId(n) : n \in 1..(TasksPerLevel + 1)}
LevelNumbers == 0..(NumLevels + 1)

\* ------------------------------------------------- the local-only store
\* initialLevels of the local-only store: number ids, and its own name for
\* level 4.
legacyInitialLevels ==
  [i \in 1..NumLevels |->
    [WithNumberIds(initialLevels)[i] EXCEPT
       !.name = IF i = 4 THEN "FAILURE NOT AN OPTION" ELSE @]]

\* activateNextLevel of the local-only store
legacyActivateNextLevel(ls, currentLevelId) ==
  [k \in DOMAIN ls |->
    IF ls[k].id = NumId(currentLevelId.val + 1)
      THEN [ls[k] EXCEPT !.isActive = TRUE]
      ELSE ls[k]]

\* legacyToggleTask without the test of level.isActive
legacyToggleTaskAnyLevel(ls, levelId, taskId) ==
  LET toggled ==
        [k \in DOMAIN ls |->
          IF ls[k].id = levelId
            THEN [ls[k] EXCEPT !.tasks =
                   [j \in DOMAIN @ |->
                     IF @[j].id = taskId
                       THEN [@[j] EXCEPT !.completed = ~@]
                       ELSE @[j]]]
            ELSE ls[k]]
      i == FindIndex(toggled, levelId)
  IN IF i # 0 /\ allTasksCompleted(toggled[i].tasks)
       THEN legacyActivateNextLevel(toggled, levelId)
       ELSE toggled

\* toggleTask of the local-only store: the flag of the task is flipped when
\* the level is active; then, when every task of the level is completed,
\* activateNextLevel(levelId). The level itself stays active.
legacyToggleTask(ls, levelId, taskId) ==
  LET toggled ==
        [k \in DOMAIN ls |->
          IF ls[k].id = levelId /\ ls[k].isActive
            THEN [ls[k] EXCEPT !.tasks =
                   [j \in DOMAIN @ |->
                     IF @[j].id = taskId
                       THEN [@[j] EXCEPT !.completed = ~@]
                       ELSE @[j]]]
            ELSE ls[k]]
      i == FindIndex(toggled, levelId)
  IN IF i # 0 /\ allTasksCompleted(toggled[i].tasks)
       THEN legacyActivateNextLevel(toggled, levelId)
       ELSE toggled

\* The store as constructed (initialLevels), or as its mount-time fetchLevels
\* left it (the remote collection).
Init ==
  /\ remote \in RemoteSeeds
  /\ levels \in {initialLevels, levelsWithStringIds(remote)}
  /\ loading = FALSE
  /\ error = Null
  /\ user \in SessionUsers
  /\ Rehydrated
  /\ flight = <<>>
  /\ last = Done("init", 0, "ok", <<>>)
  /\ ops = 0
  /\ script = <<>>
  /\ legacy = legacyInitialLevels

ToggleTask == \E l \in LevelIds, t \in TaskIds : toggleTask(l, t)
AddWarning == \E l \in LevelIds : addWarning(l)
ActivateNextLevel == \E n \in LevelNumbers : activateNextLevel(n)
UnlockLevel == \E n \in LevelNumbers : unlockLevel(n)
ResetLevels == resetLevels
FetchLevels == fetchLevels

Count == ops < MaxOps /\ ops' = ops + 1 /\ UNCHANGED <<script, legacy>>

Next ==
  \/ Count /\ ToggleTask
  \/ Count /\ AddWarning
  \/ Count /\ ActivateNextLevel
  \/ Count /\ UnlockLevel
  \/ Count /\ ResetLevels
  \/ Count /\ FetchLevels

Spec == Init /\ [][Next]_vars

\* ================================================================ claims
\* The level whose id carries the number n, and a task of it.
Lvl(ls, n) == ls[CHOOSE i \in DOMAIN ls : ls[i].id.val = n]
Tsk(ls, n, m) == Lvl(ls, n).tasks[CHOOSE j \in DOMAIN Lvl(ls, n).tasks :
                                    Lvl(ls, n).tasks[j].id.val = m]
AllDone(ls, n) == \A j \in DOMAIN Lvl(ls, n).tasks : Lvl(ls, n).tasks[j].completed
Permitted == user # NoUser /\ user.role \in {"PARTY_MEMBER", "INNER_CIRCLE"}
MutatingOps ==
  {"toggleTask", "addWarning", "activateNextLevel", "unlockLevel", "resetLevels"}
\* a step in which the operation op ran
Ran(op) == ops' = ops + 1 /\ last'.op = op
SomeCallFailed(l) == \E k \in DOMAIN l.calls : ~l.calls[k].ok

\* C1: a toggleTask on level N (N in 1..4) by a write-permitted principal
\* whose remote calls all succeed and which leaves all 5 tasks of level N
\* completed ends with level N+1 active; on level 5 it turns no level's
\* isActive from false to true.
C1_CompletionActivatesNext ==
  [][\A n \in 1..NumLevels :
       (/\ Ran("toggleTask") /\ last'.target = n /\ last'.outcome = "ok"
        /\ Permitted
        /\ AllDone(levels', n))
       => IF n < NumLevels
            THEN Lvl(levels', n + 1).isActive
            ELSE \A k \in 1..NumLevels :
                   Lvl(levels', k).isActive => Lvl(levels, k).isActive]_vars

\* C1 witness: a toggleTask completed a level below the last one, wrote the
\* next level to the remote store, and the next level is now active.
C1_Witness ==
  \E n \in 1..(NumLevels - 1) :
    /\ last.op = "toggleTask" /\ last.target = n /\ last.outcome = "ok"
    /\ Len(last.calls) = 4 /\ last.calls[3].id = n + 1
    /\ AllDone(levels, n)
    /\ Lvl(levels, n + 1).isActive

\* C1, the last level: a toggleTask completed level 5 (a state TLC reaches).
C1_LastLevelCompleted ==
  /\ last.op = "toggleTask" /\ last.target = NumLevels /\ last.outcome = "ok"
  /\ AllDone(levels, NumLevels)

\* C2: when a remote call made by toggleTask fails, the local level collection
\* after the operation is the one before it and the error value is set.
C2_FailedToggleKeepsLevels ==
  [][(Ran("toggleTask") /\ SomeCallFailed(last'))
       => (levels' = levels /\ error' # Null)]_vars

\* C2 witness: a toggleTask that completed a level failed at its last remote
\* write, after the task and the next level had been written.
C2_Witness ==
  /\ last.op = "toggleTask" /\ last.outcome = "failed"
  /\ Len(last.calls) = 4 /\ ~last.calls[4].ok
  /\ error = "Failed to toggle task"

\* C3: with no principal, or an OBSERVER, each mutating operation sets the
\* error value, issues no remote call and leaves the local levels unchanged.
C3_DeniedNoEffect ==
  [][\A op \in MutatingOps :
       (Ran(op) /\ (user = NoUser \/ user.role = "OBSERVER"))
       => /\ error' # Null
          /\ last'.calls = <<>>
          /\ remote' = remote
          /\ levels' = levels]_vars

\* C3 witness: an OBSERVER invoked unlockLevel on an existing level and was
\* denied.
C3_Witness ==
  /\ user # NoUser /\ user.role = "OBSERVER"
  /\ last.op = "unlockLevel" /\ last.target \in 1..NumLevels
  /\ last.outcome = "denied"
  /\ error = DENIED

\* C4: toggleTask by a write-permitted principal on a level whose isActive is
\* false changes no level (tasks, isActive, warnings) and issues no remote
\* read or write.
C4_InactiveToggleNoChange ==
  [][\A n \in 1..NumLevels :
       (/\ Ran("toggleTask") /\ last'.target = n
        /\ Permitted
        /\ ~Lvl(levels, n).isActive)
       => /\ levels' = levels
          /\ remote' = remote
          /\ last'.calls = <<>>]_vars

\* C4 witness: a write-permitted principal toggled a task of an inactive level
\* that still has an incomplete task.
C4_Witness ==
  \E n \in 1..NumLevels :
    /\ Permitted
    /\ last.op = "toggleTask" /\ last.target = n /\ last.outcome = "noop"
    /\ ~Lvl(levels, n).isActive
    /\ ~AllDone(levels, n)

\* The default template: level 1 active, the others not, no task completed,
\* no warning.
IsDefault(ls) ==
  /\ DOMAIN ls = 1..NumLevels
  /\ \A k \in 1..NumLevels :
       /\ ls[k].id.val = k
       /\ ls[k].isActive = (k = 1)
       /\ ls[k].warnings = 0
       /\ DOMAIN ls[k].tasks = 1..TasksPerLevel
       /\ \A j \in 1..TasksPerLevel : ~ls[k].tasks[j].completed

\* C6: in every reachable state, a level N > 1 that is active or has a
\* completed task has a level N-1 whose 5 tasks are all completed.
C6_ActiveOnlyAfterPrevious ==
  \A n \in 2..NumLevels :
    (\/ Lvl(levels, n).isActive
     \/ \E j \in DOMAIN Lvl(levels, n).tasks : Lvl(levels, n).tasks[j].completed)
    => AllDone(levels, n - 1)

\* C7: once all 5 tasks of a level are completed, no operation other than
\* resetLevels and fetchLevels changes the completed flag of a task of it.
C7_CompletedLevelsLocked ==
  [][\A n \in 1..NumLevels :
       (/\ AllDone(levels, n)
        /\ ops' = ops + 1
        /\ last'.op \notin {"resetLevels", "fetchLevels"})
       => \A j \in DOMAIN Lvl(levels, n).tasks :
            Lvl(levels', n).tasks[j].completed = Lvl(levels, n).tasks[j].completed]_vars

\* C9: resetLevels by a write-permitted principal ends with the local levels
\* equal to the default template (level 1 active, levels 2..5 inactive, every
\* task incomplete, every warnings counter 0) and overall progress 0.
C9_ResetRestoresDefault ==
  [][(Ran("resetLevels") /\ Permitted)
       => (IsDefault(levels') /\ calculateOverallProgress(levels') = fromInt(0))]_vars

TwiceFirst ==
  /\ ops = 0
  /\ ops' = 1
  /\ UNCHANGED legacy
  /\ \E n \in 1..NumLevels, m \in 1..TasksPerLevel :
       /\ toggleTask(StrId(n), StrId(m))
       /\ script' = [level |-> n, task |-> m,
                     was |-> Tsk(levels, n, m).completed,
                     first |-> last'.outcome]

TwiceSecond ==
  /\ ops = 1
  /\ ops' = 2
  /\ toggleTask(StrId(script.level), StrId(script.task))
  /\ UNCHANGED <<script, legacy>>

NextTwice == TwiceFirst \/ TwiceSecond

SpecTwice == Init /\ [][NextTwice]_vars

\* both calls were made with write permission and no remote call failed
TwiceSucceeded ==
  /\ ops = 2
  /\ Permitted
  /\ script.first \in {"ok", "noop"}
  /\ last.outcome \in {"ok", "noop"}

\* C5 as claimed: toggleTask invoked twice in succession on a task, with write
\* permission and all remote calls succeeding, leaves the task's completed
\* flag equal to its value before the first call.
C5_TwiceRestores ==
  TwiceSucceeded => Tsk(levels, script.level, script.task).completed = script.was

\* C5 as amended: the flag is back at its value before the first call, unless
\* the first call completed the level (the task was the level's last
\* incomplete one): then the level is no longer active, the second call
\* changes nothing and the flag stays true.
C5_TwiceRestoresUnlessCompleted ==
  TwiceSucceeded =>
    IF script.first = "ok" /\ AllDone(levels, script.level) /\ ~script.was
      THEN /\ Tsk(levels, script.level, script.task).completed
           /\ ~Lvl(levels, script.level).isActive
           /\ last.outcome = "noop"
      ELSE Tsk(levels, script.level, script.task).completed = script.was

\* C5 witness: both calls changed the flag and it is back at its first value.
C5_Witness ==
  /\ TwiceSucceeded
  /\ script.first = "ok" /\ last.outcome = "ok"
  /\ Tsk(levels, script.level, script.task).completed = script.was

\* C5, the excepted case: the first call completed the level and the second
\* one did nothing (a state TLC reaches).
C5_LockedAfterFirst ==
  /\ TwiceSucceeded
  /\ script.first = "ok" /\ last.outcome = "noop"
  /\ Tsk(levels, script.level, script.task).completed /\ ~script.was

\* ------------------------------------------- the end-to-end scenario (C8)
\* A write-permitted caller starts from the default template, toggles each
\* task of level 1 once (in any order) while the remote store succeeds, and
\* then toggles a task of level 3. script remembers the tasks toggled so far,
\* and, once the level-3 call was made, the levels held before it.
InitScenario ==
  /\ remote \in RemoteSeeds
  /\ levels = initialLevels
  /\ loading = FALSE
  /\ error = Null
  /\ user \in {u \in SessionUsers : hasEditPermission(u)}
  /\ Rehydrated
  /\ flight = <<>>
  /\ last = Done("init", 0, "ok", <<>>)
  /\ ops = 0
  /\ script = [toggled |-> {}, phase |-> 1, before |-> initialLevels]
  /\ legacy = legacyInitialLevels

ScenarioToggle ==
  /\ script.phase = 1
  /\ \E m \in (1..TasksPerLevel) \ script.toggled :
       /\ toggleTask(StrId(1), StrId(m))
       /\ last'.outcome = "ok"
       /\ script' = [script EXCEPT !.toggled = @ \cup {m}]
  /\ ops' = ops + 1
  /\ UNCHANGED legacy

ScenarioLocked ==
  /\ script.phase = 1
  /\ script.toggled = 1..TasksPerLevel
  /\ \E m \in 1..TasksPerLevel : toggleTask(StrId(3), StrId(m))
  /\ script' = [script EXCEPT !.phase = 2, !.before = levels]
  /\ ops' = ops + 1
  /\ UNCHANGED legacy

NextScenario == ScenarioToggle \/ ScenarioLocked

SpecScenario == InitScenario /\ [][NextScenario]_vars

\* C8: from the default template (overall progress 0), toggling each of the 5
\* tasks of level 1 once with the remote store succeeding ends with level 1
\* all completed, level 2 active and overall progress 20; a following
\* toggleTask on a task of level 3 changes no level and leaves the overall
\* progress at 20.
C8_EndToEnd ==
  /\ script.toggled = {} =>
       (IsDefault(levels) /\ calculateOverallProgress(levels) = fromInt(0))
  /\ script.toggled = 1..TasksPerLevel =>
       /\ AllDone(levels, 1)
       /\ Lvl(levels, 2).isActive
       /\ calculateOverallProgress(levels) = fromInt(20)
  /\ script.phase = 2 =>
       /\ levels = script.before
       /\ calculateOverallProgress(levels) = fromInt(20)

\* C8 witness: the whole scenario ran; the call on level 3 returned early.
C8_Witness ==
  /\ script.phase = 2
  /\ last.op = "toggleTask" /\ last.target = 3 /\ last.outcome = "noop"
  /\ AllDone(levels, 1) /\ Lvl(levels, 2).isActive
  /\ calculateOverallProgress(levels) = fromInt(20)

\* C11: when fetchLevels succeeds, the local levels become, in that one step,
\* exactly the collection the remote store returned: the same levels in the
\* same order, with the same name, description, isActive, warnings and tasks
\* (text and completed flag), every level and task id in string form; nothing
\* of the previous local collection is kept.
C11_FetchReplacesLevels ==
  [][(Ran("fetchLevels") /\ last'.outcome = "ok")
       => /\ DOMAIN levels' = DOMAIN remote
          /\ \A i \in DOMAIN remote :
               /\ levels'[i].id = StrId(remote[i].id.val)
               /\ levels'[i].name = remote[i].name
               /\ levels'[i].description = remote[i].description
               /\ levels'[i].isActive = remote[i].isActive
               /\ levels'[i].warnings = remote[i].warnings
               /\ DOMAIN levels'[i].tasks = DOMAIN remote[i].tasks
               /\ \A j \in DOMAIN remote[i].tasks :
                    /\ levels'[i].tasks[j].id = StrId(remote[i].tasks[j].id.val)
                    /\ levels'[i].tasks[j].text = remote[i].tasks[j].text
                    /\ levels'[i].tasks[j].completed = remote[i].tasks[j].completed]_vars

\* C11 witness: a fetchLevels succeeded against a service whose records carry
\* number ids and progress; the local levels carry that progress under string
\* ids.
C11_Witness ==
  /\ last.op = "fetchLevels" /\ last.outcome = "ok"
  /\ \E i \in DOMAIN remote : remote[i].id.kind = "number"
  /\ \A i \in DOMAIN levels : levels[i].id.kind = "string"
  /\ Tsk(levels, 1, 1).completed

\* The levels a toggleTask on level n can write: n and the level after it.
Affected(n) == {n, n + 1} \cap (1..NumLevels)
\* The local and the remote records of the levels in ns are equal.
InStep(ls, rem, ns) == \A k \in ns : Lvl(ls, k) = Lvl(rem, k)
\* The level with one task's completed flag negated.
Flipped(level, j) == [level EXCEPT !.tasks[j].completed = ~@]
SomePutSucceeded(l) ==
  \E k \in DOMAIN l.calls : l.calls[k].method = "PUT" /\ l.calls[k].ok

\* C12 as stated: whenever a toggleTask ends in failure from a state where the
\* local and remote records of the affected levels are equal, those remote
\* records are equal to the local ones afterwards.
C12_FailureLeavesNoDivergence ==
  [][\A n \in 1..NumLevels :
       (/\ Ran("toggleTask") /\ last'.target = n /\ last'.outcome = "failed"
        /\ InStep(levels, remote, Affected(n)))
       => InStep(levels', remote', Affected(n))]_vars

\* C12 amended: a toggleTask that ends in failure leaves the local levels as
\* they were and does not undo the remote writes that succeeded before the
\* failing call. From local and remote records that were equal: when no
\* write succeeded the remote store is unchanged; when the replace of the
\* task succeeded the remote record of the level has that task's flag
\* negated while the local record has not, and when the replace of the next
\* level succeeded too the remote next level is active while the local one is
\* not.
C12_FailureKeepsSucceededWrites ==
  [][\A n \in 1..NumLevels :
       (/\ Ran("toggleTask") /\ last'.target = n /\ last'.outcome = "failed"
        /\ InStep(levels, remote, Affected(n)))
       => /\ levels' = levels
          /\ IF ~SomePutSucceeded(last')
               THEN remote' = remote
               ELSE /\ \E j \in 1..TasksPerLevel :
                         Lvl(remote', n) = Flipped(Lvl(levels', n), j)
                    /\ ~InStep(levels', remote', {n})
                    /\ \A k \in 1..NumLevels :
                         k \notin Affected(n) => Lvl(remote', k) = Lvl(remote, k)
                    /\ IF Len(last'.calls) = 4
                         THEN /\ Lvl(remote', n + 1).isActive
                              /\ ~Lvl(levels', n + 1).isActive
                         ELSE n + 1 \in Affected(n)
                                => Lvl(remote', n + 1) = Lvl(remote, n + 1)]_vars

\* C12 witness: a toggleTask that completed a level failed at its last write;
\* the remote store holds the task and the next level's activation, the
\* local levels hold neither.
C12_Witness ==
  \E n \in 1..(NumLevels - 1) :
    /\ last.op = "toggleTask" /\ last.target = n /\ last.outcome = "failed"
    /\ Len(last.calls) = 4 /\ last.calls[2].ok /\ last.calls[3].ok
    /\ AllDone(remote, n) /\ ~AllDone(levels, n)
    /\ Lvl(remote, n + 1).isActive /\ ~Lvl(levels, n + 1).isActive

\* The toggleTask recorded in l wrote the level after n: it cascaded.
Cascaded(l, n) ==
  \E k \in DOMAIN l.calls : l.calls[k].method = "PUT" /\ l.calls[k].id = n + 1
NextLevelWritten(l, n) ==
  \E k \in DOMAIN l.calls :
    l.calls[k].method = "PUT" /\ l.calls[k].id = n + 1 /\ l.calls[k].ok
FinalRecord(level) ==
  (\A j \in DOMAIN level.tasks : level.tasks[j].completed) /\ ~level.isActive

\* C13 as stated: when a toggleTask completes a level and cascades, the
\* current level's final record (all tasks completed, not active) is written
\* to the remote store before the next level's activation record: once the
\* next level's record has been written, the remote store holds the final
\* record of the current level.
C13_CurrentLevelWrittenFirst ==
  [][\A n \in 1..NumLevels :
       (/\ Ran("toggleTask") /\ last'.target = n
        /\ InStep(levels, remote, {n})
        /\ NextLevelWritten(last', n))
       => FinalRecord(Lvl(remote', n))]_vars

\* C13 amended: when a toggleTask completes a level and cascades, the remote
\* writes are the replace of the task, then the next level's activation
\* record, then the current level's final record. When the last write
\* fails after the next level's succeeded, the remote store holds the next
\* level active and the current level with all tasks completed and still
\* active; when all succeed it holds the current level's final record.
C13_NextLevelWrittenFirst ==
  [][\A n \in 1..NumLevels :
       (/\ Ran("toggleTask") /\ last'.target = n
        /\ InStep(levels, remote, {n})
        /\ Cascaded(last', n))
       => /\ Len(last'.calls) \in {3, 4}
          /\ last'.calls[1].method = "GET"
          /\ last'.calls[2].method = "PUT" /\ last'.calls[2].id = n
          /\ last'.calls[2].ok
          /\ last'.calls[3].method = "PUT" /\ last'.calls[3].id = n + 1
          /\ Len(last'.calls) = 4 <=> last'.calls[3].ok
          /\ Len(last'.calls) = 4
               => /\ last'.calls[4].method = "PUT" /\ last'.calls[4].id = n
                  /\ Lvl(remote', n + 1).isActive
                  /\ AllDone(remote', n)
                  /\ Lvl(remote', n).isActive <=> ~last'.calls[4].ok
          /\ Len(last'.calls) = 3
               => /\ AllDone(remote', n) /\ Lvl(remote', n).isActive
                  /\ Lvl(remote', n + 1) = Lvl(remote, n + 1)]_vars

\* C13 witness: a toggleTask completed a level and cascaded with every call
\* succeeding: the next level was the third call, the current level's final
\* record the fourth.
C13_Witness ==
  \E n \in 1..(NumLevels - 1) :
    /\ last.op = "toggleTask" /\ last.target = n /\ last.outcome = "ok"
    /\ Len(last.calls) = 4
    /\ last.calls[3].id = n + 1 /\ last.calls[3].ok
    /\ last.calls[4].id = n /\ last.calls[4].ok
    /\ FinalRecord(Lvl(remote, n)) /\ Lvl(remote, n + 1).isActive

RemoteOps ==
  {"fetchLevels", "toggleTask", "addWarning", "activateNextLevel",
   "unlockLevel", "resetLevels"}

\* C14: each of fetchLevels, toggleTask, addWarning, activateNextLevel,
\* unlockLevel and resetLevels whose remote call fails ends with loading false
\* and the error value set, and is not retried: the failed call is the last
\* call the operation made.
C14_FailureClearsLoadingSetsError ==
  [][\A op \in RemoteOps :
       (Ran(op) /\ (SomeCallFailed(last') \/ last'.outcome = "failed"))
       => /\ loading' = FALSE
          /\ error' # Null
          /\ \A k \in DOMAIN last'.calls :
               ~last'.calls[k].ok => k = Len(last'.calls)]_vars

\* C14 witness: an addWarning whose replace failed ended with loading false
\* and its error set, having made that one call.
C14_Witness ==
  /\ last.op = "addWarning" /\ last.outcome = "failed"
  /\ Len(last.calls) = 1 /\ ~last.calls[1].ok
  /\ loading = FALSE
  /\ error = "Failed to add warning"

\* C15: hasEditPermission is true if and only if a principal is bound to the
\* session and its role is PARTY_MEMBER or INNER_CIRCLE; it is false for an
\* OBSERVER and when nobody is bound. Every mutating operation is denied
\* exactly when it is false.
C15_WritePermission ==
  [][/\ hasEditPermission(user)
          <=> (user # NoUser /\ user.role \in {"PARTY_MEMBER", "INNER_CIRCLE"})
     /\ user = NoUser => ~hasEditPermission(user)
     /\ (user # NoUser /\ user.role = "OBSERVER") => ~hasEditPermission(user)
     /\ \A op \in MutatingOps :
          Ran(op) => (last'.outcome = "denied"
                        <=> ~(user # NoUser
                              /\ user.role \in {"PARTY_MEMBER", "INNER_CIRCLE"}))]_vars

\* C15 witness: a PARTY_MEMBER's addWarning went past the permission check
\* and was committed.
C15_Witness ==
  /\ user # NoUser /\ user.role = "PARTY_MEMBER"
  /\ last.op = "addWarning" /\ last.outcome = "ok"
  /\ hasEditPermission(user)

\* ============================================================= auth store
\* A string the user typed is the sequence of its characters.
Lower ==
  {"a", "b", "c", "d", "e", "f", "g", "h", "i", "j", "k", "l", "m",
   "n", "o", "p", "q", "r", "s", "t", "u", "v", "w", "x", "y", "z"}
Upper ==
  {"A", "B", "C", "D", "E", "F", "G", "H", "I", "J", "K", "L", "M",
   "N", "O", "P", "Q", "R", "S", "T", "U", "V", "W", "X", "Y", "Z"}
Digit == {"0", "1", "2", "3", "4", "5", "6", "7", "8", "9"}
\* [a-zA-Z0-9._%+-]
EmailLocalChars == Lower \cup Upper \cup Digit \cup {".", "_", "%", "+", "-"}
\* [!@#$%^&*]
PasswordSpecials == {"!", "@", "#", "$", "%", "^", "&", "*"}
\* the characters . does not match
LineTerminators == {"\n", "\r"}
\* @ministry\.gov
MinistryDomain == <<"@", "m", "i", "n", "i", "s", "t", "r", "y", ".", "g", "o", "v">>

\* The JavaScript string of a character sequence (what === compares).
RECURSIVE Text(_)
Text(cs) == IF cs = <<>> THEN "" ELSE Head(cs) \o Text(Tail(cs))

\* /^[a-zA-Z0-9._%+-]+@ministry\.gov$/.test(email)
emailRegexTest(email) ==
  \E k \in 2..Len(email) :
    /\ \A i \in 1..(k - 1) : email[i] \in EmailLocalChars
    /\ SubSeq(email, k, Len(email)) = MinistryDomain

\* (?=.*[class]) at the start of the string: a character of the class with
\* no line terminator before it.
LookaheadHas(password, class) ==
  \E i \in 1..Len(password) :
    /\ password[i] \in class
    /\ \A m \in 1..(i - 1) : password[m] \notin LineTerminators

\* /^(?=.*[A-Z])(?=.*[0-9])(?=.*[!@#$%^&*])(?=.{8,})/.test(password)
passwordRegexTest(password) ==
  /\ LookaheadHas(password, Upper)
  /\ LookaheadHas(password, Digit)
  /\ LookaheadHas(password, PasswordSpecials)
  /\ Len(password) >= 8
  /\ \A m \in 1..8 : password[m] \notin LineTerminators

INVALID_EMAIL == "INVALID EMAIL FORMAT - MINISTRY EMAILS ONLY"
WEAK_PASSWORD == "PASSWORD DOES NOT MEET SECURITY REQUIREMENTS"
UNAUTHORIZED == "ACCESS DENIED - UNAUTHORIZED USER"

\* AUTHORIZED_USERS.find(user => user.email === email); NoUser for undefined
findUser(email) ==
  IF \E u \in AUTHORIZED_USERS : u.email = Text(email)
    THEN CHOOSE u \in AUTHORIZED_USERS : u.email = Text(email)
    ELSE NoUser

\* validateCredentials testing the allow-list before the password
validateCredentialsListFirst(email, password) ==
  IF ~emailRegexTest(email) THEN [valid |-> FALSE, error |-> INVALID_EMAIL]
  ELSE IF findUser(email) = NoUser THEN [valid |-> FALSE, error |-> UNAUTHORIZED]
  ELSE IF ~passwordRegexTest(password)
         THEN [valid |-> FALSE, error |-> WEAK_PASSWORD]
  ELSE [valid |-> TRUE, error |-> Null]

validateCredentials(email, password) ==
  IF ~emailRegexTest(email) THEN [valid |-> FALSE, error |-> INVALID_EMAIL]
  ELSE IF ~passwordRegexTest(password)
         THEN [valid |-> FALSE, error |-> WEAK_PASSWORD]
  ELSE IF findUser(email) = NoUser THEN [valid |-> FALSE, error |-> UNAUTHORIZED]
  ELSE [valid |-> TRUE, error |-> Null]

levelStoreVars == <<levels, loading, error, remote, flight>>

\* login ending the session it found when the credentials are rejected
loginDroppingSession(email, password) ==
  LET validation == validateCredentials(email, password) IN
  IF ~validation.valid \/ findUser(email) = NoUser
    THEN /\ authError' = IF validation.valid THEN "AUTHENTICATION FAILED"
                                             ELSE validation.error
         /\ isAuthenticated' = FALSE
         /\ user' = NoUser
         /\ last' = Done("login", 0, "failed", <<>>)
         /\ UNCHANGED <<fadeOut, pending, levelStoreVars>>
    ELSE /\ authError' = Null
         /\ fadeOut' = TRUE
         /\ pending' = Append(pending, [email |-> email, user |-> findUser(email)])
         /\ last' = Done("login", 0, "waiting", <<>>)
         /\ UNCHANGED <<user, isAuthenticated, levelStoreVars>>

\* login up to its await: set({ error: null }), the validation, the lookup of
\* the user, set({ fadeOut: true }) and the start of the 1000 ms timer.
login(email, password) ==
  LET validation == validateCredentials(email, password) IN
  /\ IF ~validation.valid
       THEN /\ authError' = validation.error
            /\ last' = Done("login", 0, "failed", <<>>)
            /\ UNCHANGED <<fadeOut, pending>>
       ELSE IF findUser(email) = NoUser
         THEN /\ authError' = "AUTHENTICATION FAILED"
              /\ last' = Done("login", 0, "failed", <<>>)
              /\ UNCHANGED <<fadeOut, pending>>
         ELSE /\ authError' = Null
              /\ fadeOut' = TRUE
              /\ pending' = Append(pending, [email |-> email, user |-> findUser(email)])
              /\ last' = Done("login", 0, "waiting", <<>>)
  /\ UNCHANGED <<user, isAuthenticated, levelStoreVars>>

\* loginResume binding the principal of the call that started last
loginResumeNewest ==
  /\ pending # <<>>
  /\ isAuthenticated' = TRUE
  /\ user' = pending[Len(pending)].user
  /\ authError' = Null
  /\ fadeOut' = FALSE
  /\ pending' = Tail(pending)
  /\ last' = Done("login", 0, "ok", <<>>)
  /\ UNCHANGED levelStoreVars

\* login after its await (timers of equal delay fire in the order they were
\* started): set({ isAuthenticated: true, user, error: null, fadeOut: false })
loginResume ==
  /\ pending # <<>>
  /\ isAuthenticated' = TRUE
  /\ user' = Head(pending).user
  /\ authError' = Null
  /\ fadeOut' = FALSE
  /\ pending' = Tail(pending)
  /\ last' = Done("login", 0, "ok", <<>>)
  /\ UNCHANGED levelStoreVars

\* logout keeping the principal bound
logoutKeepingUser ==
  /\ isAuthenticated' = FALSE
  /\ authError' = Null
  /\ fadeOut' = FALSE
  /\ last' = Done("logout", 0, "ok", <<>>)
  /\ UNCHANGED <<user, pending, levelStoreVars>>

\* set({ isAuthenticated: false, user: null, error: null, fadeOut: false })
logout ==
  /\ isAuthenticated' = FALSE
  /\ user' = NoUser
  /\ authError' = Null
  /\ fadeOut' = FALSE
  /\ last' = Done("logout", 0, "ok", <<>>)
  /\ UNCHANGED <<pending, levelStoreVars>>

\* set({ error: null })
clearError ==
  /\ authError' = Null
  /\ last' = Done("clearError", 0, "ok", <<>>)
  /\ UNCHANGED <<user, isAuthenticated, fadeOut, pending, levelStoreVars>>

\* set({ fadeOut: fade })
setFadeOut(fade) ==
  /\ fadeOut' = fade
  /\ last' = Done("setFadeOut", 0, "ok", <<>>)
  /\ UNCHANGED <<user, isAuthenticated, authError, pending, levelStoreVars>>

\* What is typed into the login form.
Emails ==
  { <<"r", "o", "n", "a", "n", "@", "m", "i", "n", "i", "s", "t", "r", "y", ".", "g", "o", "v">>,
    <<"c", "y", "r", "i", "l", "@", "m", "i", "n", "i", "s", "t", "r", "y", ".", "g", "o", "v">>,
    <<"p", "r", "o", "l", "e", "t", "a", "r", "i", "a", "t", "@", "m", "i", "n", "i", "s", "t", "r", "y", ".", "g", "o", "v">>,
    <<"w", "i", "n", "s", "t", "o", "n", "@", "m", "i", "n", "i", "s", "t", "r", "y", ".", "g", "o", "v">>,
    <<"r", "o", "n", "a", "n", "@", "g", "m", "a", "i", "l", ".", "c", "o", "m">>,
    <<"@", "m", "i", "n", "i", "s", "t", "r", "y", ".", "g", "o", "v">> }
Passwords ==
  { <<"P", "a", "s", "s", "w", "0", "r", "!">>,
    <<"p", "a", "s", "s", "w", "0", "r", "d", "!">>,
    <<"P", "w", "0", "!", "x", "y", "z">>,
    <<"P", "w", "0", "!", "\n", "w", "x", "y", "z">> }

\* The auth store with the level store as constructed.
InitAuth ==
  /\ levels = initialLevels
  /\ remote = initialLevels
  /\ loading = FALSE
  /\ error = Null
  /\ user \in SessionUsers
  /\ Rehydrated
  /\ flight = <<>>
  /\ last = Done("init", 0, "ok", <<>>)
  /\ ops = 0
  /\ script = <<>>
  /\ legacy = legacyInitialLevels

Invoke == ops < MaxOps /\ ops' = ops + 1

\* script: the credentials of the latest login call
Login ==
  \E email \in Emails, password \in Passwords :
    /\ Invoke
    /\ login(email, password)
    /\ script' = [email |-> email, password |-> password]
    /\ UNCHANGED legacy
LoginResume == loginResume /\ UNCHANGED <<ops, script, legacy>>
Logout == Invoke /\ logout /\ UNCHANGED <<script, legacy>>
ClearError == Invoke /\ clearError /\ UNCHANGED <<script, legacy>>
SetFadeOut == \E fade \in BOOLEAN : Invoke /\ setFadeOut(fade) /\ UNCHANGED <<script, legacy>>

NextAuth ==
  \/ Login
  \/ LoginResume
  \/ Logout
  \/ ClearError
  \/ SetFadeOut

SpecAuth == InitAuth /\ [][NextAuth]_vars

\* ------------------------------------------------------ auth store claims
\* a step in which a login call was made, up to its await
LoginCalled == ops' = ops + 1 /\ last'.op = "login"
\* a step in which a login call came back from its await
LoginReturned == ops' = ops /\ last'.op = "login" /\ last'.outcome = "ok"
Listed(email) == \E u \in AUTHORIZED_USERS : u.email = Text(email)

\* C16: login reports the error of the first failing check in the order email
\* format, password strength, allow-list: a malformed email gives the email
\* error whatever the password; a well-formed email with a weak password
\* gives the password error whether or not the email is listed; the
\* unauthorized-user error is given exactly for a well-formed, unlisted email
\* with a strong password.
C16_FirstFailingCheck ==
  [][LoginCalled =>
       LET email == script'.email
           password == script'.password
       IN /\ ~emailRegexTest(email) => authError' = INVALID_EMAIL
          /\ (emailRegexTest(email) /\ ~passwordRegexTest(password))
               => authError' = WEAK_PASSWORD
          /\ authError' = UNAUTHORIZED
               <=> (/\ emailRegexTest(email)
                    /\ passwordRegexTest(password)
                    /\ ~Listed(email))]_vars

\* C16 witness: a login with a well-formed email that is not in the allow-list
\* and a weak password ended with the password error.
C16_Witness ==
  /\ last.op = "login" /\ last.outcome = "failed"
  /\ emailRegexTest(script.email) /\ ~Listed(script.email)
  /\ ~passwordRegexTest(script.password)
  /\ authError = WEAK_PASSWORD

\* C17: a login with a well-formed, listed email and a strong password goes
\* on to its await and, when it returns, ends with isAuthenticated true and
\* the user equal to the allow-list entry of that email; for
\* ronan@ministry.gov the role is INNER_CIRCLE and hasEditPermission is true.
C17_LoginBindsPrincipal ==
  [][/\ (/\ LoginCalled
          /\ emailRegexTest(script'.email)
          /\ passwordRegexTest(script'.password)
          /\ Listed(script'.email))
         => /\ last'.outcome = "waiting"
            /\ Len(pending') = Len(pending) + 1
            /\ pending'[Len(pending')].email = script'.email
     /\ LoginReturned
         => /\ isAuthenticated' = TRUE
            /\ user' \in AUTHORIZED_USERS
            /\ user'.email = Text(Head(pending).email)
            /\ authError' = Null
            /\ user'.email = "ronan@ministry.gov"
                 => (user'.role = "INNER_CIRCLE" /\ hasEditPermission(user'))]_vars

\* C17 witness: a login as ronan@ministry.gov returned: the session is
\* authenticated, bound to the INNER_CIRCLE entry, with write permission.
C17_Witness ==
  /\ last.op = "login" /\ last.outcome = "ok"
  /\ script # <<>> /\ Text(script.email) = "ronan@ministry.gov"
  /\ pending = <<>>
  /\ isAuthenticated
  /\ user = [email |-> "ronan@ministry.gov", role |-> "INNER_CIRCLE"]
  /\ hasEditPermission(user)

\* C18: logout, from any session state, ends with isAuthenticated false, no
\* user, no auth error and hasEditPermission false; it has no failure outcome.
C18_LogoutClearsSession ==
  [][(ops' = ops + 1 /\ last'.op = "logout")
       => /\ isAuthenticated' = FALSE
          /\ user' = NoUser
          /\ authError' = Null
          /\ ~hasEditPermission(user')
          /\ last'.outcome = "ok"]_vars

\* C18 witness: a session that a login had authenticated was logged out.
C18_Witness ==
  /\ last.op = "logout"
  /\ script # <<>> /\ validateCredentials(script.email, script.password).valid
  /\ pending = <<>>
  /\ ~isAuthenticated /\ user = NoUser /\ authError = Null

\* ------------------------------------------------------------- warnings
\* C19: addWarning(levelId) by a write-permitted principal whose replace
\* succeeds increases the warnings of that level by exactly 1 in the record
\* written to the remote store and in the local levels, and changes nothing
\* else in any level: the rest of the local level and the other local levels
\* are as before, the remote record is the local level with the new count,
\* and the other remote records are as before.
C19_AddWarningAddsOne ==
  [][\A n \in 1..NumLevels :
       (/\ Ran("addWarning") /\ last'.target = n /\ last'.outcome = "ok"
        /\ Permitted)
       => /\ Lvl(levels', n).warnings = Lvl(levels, n).warnings + 1
          /\ Lvl(levels', n) = [Lvl(levels, n) EXCEPT !.warnings = @ + 1]
          /\ Lvl(remote', n) = [Lvl(levels, n) EXCEPT !.warnings = @ + 1]
          /\ last'.calls = <<[method |-> "PUT", id |-> n, ok |-> TRUE]>>
          /\ \A k \in (1..NumLevels) \ {n} :
               /\ Lvl(levels', k) = Lvl(levels, k)
               /\ Lvl(remote', k) = Lvl(remote, k)]_vars

\* C19 witness: an addWarning succeeded on a level that had one warning: the
\* local level and the remote record hold two.
C19_Witness ==
  \E n \in 1..NumLevels :
    /\ last.op = "addWarning" /\ last.target = n /\ last.outcome = "ok"
    /\ Lvl(levels, n).warnings = 2
    /\ Lvl(remote, n).warnings = 2

\* The store driven by addWarning alone, from the default template.
InitWarnings ==
  /\ levels = initialLevels
  /\ remote = initialLevels
  /\ loading = FALSE
  /\ error = Null
  /\ user \in SessionUsers
  /\ Rehydrated
  /\ flight = <<>>
  /\ last = Done("init", 0, "ok", <<>>)
  /\ ops = 0
  /\ script = <<>>
  /\ legacy = legacyInitialLevels

NextWarnings ==
  /\ ops < MaxAddWarnings
  /\ ops' = ops + 1
  /\ UNCHANGED <<script, legacy>>
  /\ AddWarning

SpecWarnings == InitWarnings /\ [][NextWarnings]_vars

\* C20: in every reachable state of the store, every level's warnings counter
\* is at most 3.
C20_AtMostThreeWarnings ==
  \A i \in DOMAIN levels : levels[i].warnings <= 3

\* ------------------------------------------------------------ activation
ActivatingOps == {"unlockLevel", "activateNextLevel"}
\* the operation op ended successfully on level n in the step / in the state
Succeeded(op, n) == Ran(op) /\ last'.target = n /\ last'.outcome = "ok"
HasSucceeded(op, n) == last.op = op /\ last.target = n /\ last.outcome = "ok"

\* C21: unlockLevel and activateNextLevel by a write-permitted principal with
\* a succeeding remote store end with the target level active and every other
\* field of every level as before; applied to a level that is already active
\* they leave the local levels unchanged, and applied a second time to the
\* same level they leave the levels as the first application left them.
C21_ActivationIdempotent ==
  [][\A op \in ActivatingOps : \A n \in 1..NumLevels :
       (Succeeded(op, n) /\ Permitted)
       => /\ Lvl(levels', n).isActive
          /\ Lvl(levels', n) = [Lvl(levels, n) EXCEPT !.isActive = TRUE]
          /\ \A k \in (1..NumLevels) \ {n} : Lvl(levels', k) = Lvl(levels, k)
          /\ Lvl(levels, n).isActive => levels' = levels
          /\ (\E first \in ActivatingOps : HasSucceeded(first, n))
               => levels' = levels]_vars

\* C21 witness: unlockLevel succeeded twice on level 3, which the first
\* application had activated.
C21_Witness ==
  /\ ops = 2
  /\ HasSucceeded("unlockLevel", 3)
  /\ error = Null
  /\ Lvl(levels, 3).isActive
  /\ Lvl(remote, 3).isActive
  /\ levels = [initialLevels EXCEPT ![3].isActive = TRUE]
  /\ remote = levels

\* ------------------------------------------------------------ absent ids
AbsentTask == StrId(TasksPerLevel + 1)

\* C22: a mutating operation by a write-permitted principal that names a
\* level the store does not hold (toggleTask, addWarning, unlockLevel with an
\* unknown level, activateNextLevel(5)) or a task its level does not hold
\* (toggleTask) leaves the local levels unchanged and issues no remote call.
C22_AbsentIdNoEffect ==
  [][/\ \A op \in MutatingOps \ {"resetLevels"} :
          (Ran(op) /\ Permitted /\ last'.target \notin 1..NumLevels)
          => /\ levels' = levels
             /\ remote' = remote
             /\ last'.calls = <<>>
     /\ \A l \in LevelIds :
          (ops' = ops + 1 /\ Permitted /\ toggleTask(l, AbsentTask))
          => /\ levels' = levels
             /\ remote' = remote
             /\ last'.calls = <<>>]_vars

\* C22 witness: activateNextLevel(5), whose next level does not exist, was
\* invoked by a write-permitted principal and returned without a remote call.
C22_Witness ==
  /\ Permitted
  /\ last.op = "activateNextLevel" /\ last.target = NumLevels + 1
  /\ last.outcome = "noop" /\ last.calls = <<>>

\* C22, the absent task: toggleTask on an active level returned without a
\* remote call (a state TLC reaches).
C22_AbsentTaskToggled ==
  \E n \in 1..NumLevels :
    /\ Permitted
    /\ last.op = "toggleTask" /\ last.target = n /\ last.outcome = "noop"
    /\ Lvl(levels, n).isActive

\* -------------------------------------------------------------- progress
\* The store at each point of an in-order run through the levels, and one
\* toggleTask more.
ProgressSeeds ==
  {Advanced(n, c) : n \in 1..NumLevels, c \in 0..(TasksPerLevel - 1)}
    \cup {Advanced(NumLevels + 1, 0)}

InitProgress ==
  /\ levels \in ProgressSeeds
  /\ remote = levels
  /\ loading = FALSE
  /\ error = Null
  /\ user \in {u \in SessionUsers : u # NoUser /\ u.role = "PARTY_MEMBER"}
  /\ Rehydrated
  /\ flight = <<>>
  /\ last = Done("init", 0, "ok", <<>>)
  /\ ops = 0
  /\ script = <<>>
  /\ legacy = legacyInitialLevels

NextProgress ==
  /\ ops < MaxToggles
  /\ ops' = ops + 1
  /\ UNCHANGED <<script, legacy>>
  /\ ToggleTask

SpecProgress == InitProgress /\ [][NextProgress]_vars

\* x < y for finite doubles x, y >= 0
Less(x, y) ==
  LET xz == x = Zero
      yz == y = Zero
      top == CHOOSE i \in 0..MantissaBits :
               /\ \A k \in (i + 1)..MantissaBits : x.man[k] = y.man[k]
               /\ i > 0 => x.man[i] # y.man[i]
  IN IF yz THEN FALSE
     ELSE IF xz THEN TRUE
     ELSE IF x.exp # y.exp THEN x.exp < y.exp
     ELSE top > 0 /\ x.man[top] < y.man[top]

Completed(level) == Cardinality({j \in DOMAIN level.tasks : level.tasks[j].completed})
TotalCompleted(ls) == SumSeq([i \in DOMAIN ls |-> Completed(ls[i])])

\* C23: for every level of the store, calculateLevelProgress is the number
\* 100 x (completed tasks of the level) / 5, one of 0, 20, 40, 60, 80, 100;
\* for an id that matches no level it is 0.
C23_LevelProgress ==
  \A l \in LevelIds :
    IF l.val \in 1..NumLevels
      THEN LET hundredTimes == 100 * Completed(Lvl(levels, l.val))
           IN /\ hundredTimes % 5 = 0
              /\ hundredTimes \div 5 \in {0, 20, 40, 60, 80, 100}
              /\ calculateLevelProgress(levels, l) = fromInt(hundredTimes \div 5)
      ELSE calculateLevelProgress(levels, l) = fromInt(0)

\* C23 witness: a toggleTask left a level with 3 completed tasks; its
\* progress is 60.
C23_Witness ==
  \E n \in 1..NumLevels :
    /\ HasSucceeded("toggleTask", n)
    /\ Completed(Lvl(levels, n)) = 3
    /\ calculateLevelProgress(levels, StrId(n)) = fromInt(60)

\* C24 as stated: in every reachable state calculateOverallProgress is the
\* number 100 x (completed tasks of all levels) / 25, and lies in [0, 100].
C24_OverallProgressExact ==
  LET hundredTimes == 100 * TotalCompleted(levels)
      progress == calculateOverallProgress(levels)
  IN /\ Len(levels) * 5 = 25
     /\ hundredTimes % 25 = 0
     /\ progress = fromInt(hundredTimes \div 25)
     /\ ~Less(progress, fromInt(0))
     /\ ~Less(fromInt(100), progress)

\* C24 amended: in every reachable state calculateOverallProgress is the
\* double (completed / 25) * 100, with 25 = number of levels x 5. It is the
\* number 100 x completed / 25 except when 7 or 14 tasks are completed,
\* where the two roundings leave it one unit in the last place above 28 and
\* 56; it lies in [0, 100].
C24_OverallProgressRounded ==
  LET completed == TotalCompleted(levels)
      exact == fromInt((100 * completed) \div 25)
      progress == calculateOverallProgress(levels)
  IN /\ Len(levels) * 5 = 25
     /\ (100 * completed) % 25 = 0
     /\ completed \notin {7, 14} => progress = exact
     /\ completed \in {7, 14}
          => /\ Less(exact, progress)
             /\ progress = [exact EXCEPT !.man = AddBits(@, <<1>>)]
     /\ ~Less(progress, fromInt(0))
     /\ ~Less(fromInt(100), progress)

\* C24 witness: a toggleTask left 7 tasks completed; the overall progress is
\* above 28 and below 29.
C24_Witness ==
  /\ last.op = "toggleTask" /\ last.outcome = "ok"
  /\ TotalCompleted(levels) = 7
  /\ Less(fromInt(28), calculateOverallProgress(levels))
  /\ Less(calculateOverallProgress(levels), fromInt(29))

\* ================================================== overlapping operations
\* The operations of the level store are async functions: between two awaits
\* of one call, steps of other calls can run. A call in flight is
\*   op, target, task : the operation and its arguments
\*   state            : const state = get(), the levels when it started
\*   pc               : "get"  - api.updateTask waits for GET /levels
\*                      "put"  - waits for the PUT at the head of puts
\*                      "commit" - its last PUT has been answered
\*                      "done" - it has returned (outcome says how)
\*   puts             : the PUT requests it still has to make, in order
InFlight(op, target, task, pc, puts) ==
  [op |-> op, target |-> target, task |-> task, state |-> levels,
   pc |-> pc, puts |-> puts, outcome |-> "running"]

NoTask == StrId(0)

FailureMessage(op) ==
  CASE op = "toggleTask" -> "Failed to toggle task"
    [] op = "addWarning" -> "Failed to add warning"
    [] op = "activateNextLevel" -> "Failed to activate next level"
    [] op = "unlockLevel" -> "Failed to unlock level"

\* An operation up to its first await: the permission check,
\* set({ loading: true, error: null }), const state = get(), the lookups.
Begin(op, targetId, taskId, absent, pc, puts) ==
  \/ Deny(op, targetId.val)
  \/ /\ hasEditPermission(user)
     /\ IF absent
          THEN EarlyReturn(op, targetId.val)
          ELSE /\ loading' = TRUE
               /\ error' = Null
               /\ flight' = Append(flight, InFlight(op, targetId, taskId, pc, puts))
               /\ UNCHANGED <<levels, remote, session, last>>

\* toggleTask up to await api.updateTask(...), which awaits getLevels()
beginToggleTask(levelId, taskId) ==
  Begin("toggleTask", levelId, taskId, returnsEarly(levels, levelId, taskId),
        "get", <<>>)

\* addWarning up to await api.updateLevel(levelId, updatedLevel)
beginAddWarning(levelId) ==
  LET i == FindIndex(levels, levelId) IN
  Begin("addWarning", levelId, NoTask, i = 0, "put",
        IF i = 0 THEN <<>>
        ELSE <<PUT(levelId, [levels[i] EXCEPT !.warnings = @ + 1])>>)

\* activateNextLevel and unlockLevel up to await api.updateLevel(...)
beginActivate(op, targetId) ==
  LET i == FindIndex(levels, targetId) IN
  Begin(op, targetId, NoTask, i = 0, "put",
        IF i = 0 THEN <<>>
        ELSE <<PUT(targetId, [levels[i] EXCEPT !.isActive = TRUE])>>)

\* catch (error) { set({ error: message, loading: false }) }
catch(c) ==
  /\ error' = FailureMessage(flight[c].op)
  /\ loading' = FALSE
  /\ flight' = [flight EXCEPT ![c].pc = "done", ![c].outcome = "failed"]
  /\ last' = Done(flight[c].op, flight[c].target.val, "failed", <<>>)
  /\ UNCHANGED <<levels, remote, session>>

\* GET /levels of api.updateTask is answered: the level is looked up in the
\* answer and the requests that follow are fixed: the replace of the level as
\* the service holds it with the task's flag set, then those toggleTask
\* builds from its own state.
answerGet(c, fail) ==
  LET f == flight[c]
      i == FindIndex(f.state, f.target)
      j == FindIndex(f.state[i].tasks, f.task)
  IN /\ f.pc = "get"
     /\ IF fail \/ updateTaskThrows(remote, f.target)
          THEN catch(c)
          ELSE /\ flight' = [flight EXCEPT
                               ![c].pc = "put",
                               ![c].puts = Tail(togglePlan(f.state, remote,
                                                           f.target, f.task))]
               /\ UNCHANGED <<levels, loading, error, remote, session, last>>

\* The PUT at the head of puts is answered: the service has replaced the
\* record, or the request failed and the operation's catch block runs.
answerPut(c, fail) ==
  LET f == flight[c]
      put == Head(f.puts)
  IN /\ f.pc = "put"
     /\ IF fail \/ RemoteIndex(remote, put.id) = 0
          THEN catch(c)
          ELSE /\ remote' = updateLevel(remote, put.id, put.data)
               /\ flight' = [flight EXCEPT
                               ![c].puts = Tail(f.puts),
                               ![c].pc = IF Tail(f.puts) = <<>> THEN "commit" ELSE "put"]
               /\ UNCHANGED <<levels, loading, error, session, last>>

\* commitLevels with toggleTask changing the level the store holds now
commitLevelsOnCurrent(f, current) ==
  CASE f.op = "toggleTask" ->
         LET casc == cascades(f.state, f.target, f.task)
         IN [k \in DOMAIN current |->
              IF current[k].id = f.target
                THEN updatedCurrentLevel(current[k], f.task)
              ELSE IF current[k].id = nextLevelId(f.target) /\ casc
                THEN [current[k] EXCEPT !.isActive = TRUE]
              ELSE current[k]]
    [] f.op = "addWarning" ->
         [k \in DOMAIN current |->
           IF current[k].id = f.target
             THEN [current[k] EXCEPT !.warnings = @ + 1]
             ELSE current[k]]
    [] f.op \in {"activateNextLevel", "unlockLevel"} ->
         [k \in DOMAIN current |->
           IF current[k].id = f.target
             THEN [current[k] EXCEPT !.isActive = TRUE]
             ELSE current[k]]

\* set(state => ({ levels: state.levels.map(...), loading: false })): the
\* levels the store holds now, with what the call built from its own state.
commitLevels(f, current) ==
  CASE f.op = "toggleTask" ->
         LET i == FindIndex(f.state, f.target)
             n == FindIndex(f.state, nextLevelId(f.target))
             casc == cascades(f.state, f.target, f.task)
         IN [k \in DOMAIN current |->
              IF current[k].id = f.target
                THEN updatedCurrentLevel(f.state[i], f.task)
              ELSE IF current[k].id = nextLevelId(f.target) /\ casc
                THEN [f.state[n] EXCEPT !.isActive = TRUE]
              ELSE current[k]]
    [] f.op = "addWarning" ->
         [k \in DOMAIN current |->
           IF current[k].id = f.target
             THEN [current[k] EXCEPT !.warnings = @ + 1]
             ELSE current[k]]
    [] f.op \in {"activateNextLevel", "unlockLevel"} ->
         [k \in DOMAIN current |->
           IF current[k].id = f.target
             THEN [current[k] EXCEPT !.isActive = TRUE]
             ELSE current[k]]

commit(c) ==
  /\ flight[c].pc = "commit"
  /\ levels' = commitLevels(flight[c], levels)
  /\ loading' = FALSE
  /\ flight' = [flight EXCEPT ![c].pc = "done", ![c].outcome = "ok"]
  /\ last' = Done(flight[c].op, flight[c].target.val, "ok", <<>>)
  /\ UNCHANGED <<error, remote, session>>

\* The operations the overlapping behaviours start: on level 1 and its last
\* two tasks, and on level 2.
OverlapLevels == {StrId(1), StrId(2)}
OverlapTasks == {StrId(TasksPerLevel - 1), StrId(TasksPerLevel)}

InitOverlap ==
  /\ levels \in {initialLevels, Advanced(1, TasksPerLevel - 2)}
  /\ remote = levels
  /\ loading = FALSE
  /\ error = Null
  /\ user \in {u \in SessionUsers : u # NoUser /\ u.role # "INNER_CIRCLE"}
  /\ Rehydrated
  /\ flight = <<>>
  /\ last = Done("init", 0, "ok", <<>>)
  /\ ops = 0
  /\ script = <<>>
  /\ legacy = legacyInitialLevels

Start == ops < MaxCalls /\ ops' = ops + 1 /\ UNCHANGED <<script, legacy>>
Resume == UNCHANGED <<ops, script, legacy>>

BeginToggleTask ==
  \E l \in OverlapLevels, t \in OverlapTasks : Start /\ beginToggleTask(l, t)
BeginAddWarning == \E l \in OverlapLevels : Start /\ beginAddWarning(l)
BeginActivateNextLevel ==
  \E n \in {1, NumLevels} :
    Start /\ beginActivate("activateNextLevel", toString(NumId(n + 1)))
BeginUnlockLevel ==
  \E n \in {2} : Start /\ beginActivate("unlockLevel", toString(NumId(n)))
AnswerGet == \E c \in DOMAIN flight, fail \in BOOLEAN : Resume /\ answerGet(c, fail)
AnswerPut == \E c \in DOMAIN flight, fail \in BOOLEAN : Resume /\ answerPut(c, fail)
CommitLevels == \E c \in DOMAIN flight : Resume /\ commit(c)

NextOverlap ==
  \/ BeginToggleTask
  \/ BeginAddWarning
  \/ BeginActivateNextLevel
  \/ BeginUnlockLevel
  \/ AnswerGet
  \/ AnswerPut
  \/ CommitLevels

SpecOverlap == InitOverlap /\ [][NextOverlap]_vars

\* ---------------------------------------------- overlapping operations: claims
\* the call c commits in this step
Commits(c) ==
  /\ c \in DOMAIN flight
  /\ flight[c].pc = "commit"
  /\ flight'[c].pc = "done" /\ flight'[c].outcome = "ok"
\* c and d are toggleTask calls on two tasks of one level that were both
\* started before either committed (they hold the same state), and no other
\* toggleTask call was made on that level.
OverlappingToggles(fl, c, d) ==
  /\ c # d
  /\ fl[c].op = "toggleTask" /\ fl[d].op = "toggleTask"
  /\ fl[c].target = fl[d].target
  /\ fl[c].task # fl[d].task
  /\ fl[c].state = fl[d].state
  /\ \A e \in DOMAIN fl \ {c, d} :
       ~(fl[e].op = "toggleTask" /\ fl[e].target = fl[c].target)
\* the completed flag of task t of level l differs from the one in state st
FlipIn(ls, st, l, t) ==
  Tsk(ls, l.val, t.val).completed # Tsk(st, l.val, t.val).completed

\* C25: when two toggleTask calls on two different tasks of one active level
\* (the only toggleTask calls on that level) are both started before either
\* commits and both succeed, the later commit
\* replaces the local level with the record built from its own state: the
\* local level holds the later call's flip and not the earlier call's, and
\* the remote record holds the flip of one call only.
C25_LastCommitWins ==
  [][\A c \in DOMAIN flight : \A d \in DOMAIN flight :
       (/\ Commits(c)
        /\ OverlappingToggles(flight, c, d)
        /\ flight[d].outcome = "ok")
       => LET f == flight[c]
              n == f.target.val
          IN /\ Lvl(levels', n) = updatedCurrentLevel(Lvl(f.state, n), f.task)
             /\ FlipIn(levels', f.state, f.target, f.task)
             /\ ~FlipIn(levels', f.state, f.target, flight[d].task)
             /\ FlipIn(levels, f.state, f.target, flight[d].task)
             /\ ~(/\ FlipIn(remote', f.state, f.target, f.task)
                  /\ FlipIn(remote', f.state, f.target, flight[d].task))]_vars

\* C25 witness: two overlapping toggleTask calls on tasks 4 and 5 of level 1
\* have both succeeded; the local level and the remote record hold the flip
\* of task 5 and not that of task 4.
C25_Witness ==
  \E c \in DOMAIN flight : \E d \in DOMAIN flight :
    /\ OverlappingToggles(flight, c, d)
    /\ flight[c].outcome = "ok" /\ flight[d].outcome = "ok"
    /\ flight[c].target = StrId(1)
    /\ flight[c].task = StrId(TasksPerLevel)
    /\ FlipIn(levels, flight[c].state, flight[c].target, flight[c].task)
    /\ ~FlipIn(levels, flight[c].state, flight[c].target, flight[d].task)
    /\ FlipIn(remote, flight[c].state, flight[c].target, flight[c].task)
    /\ ~FlipIn(remote, flight[c].state, flight[c].target, flight[d].task)

\* C26: across any interleaving of toggleTask, addWarning, activateNextLevel
\* and unlockLevel calls, no step lowers the warnings of a level the store
\* holds.
C26_WarningsNeverDecrease ==
  [][\A n \in 1..NumLevels :
       Lvl(levels', n).warnings >= Lvl(levels, n).warnings]_vars

\* ------------------------------------------------------ structure of levels
\* NumLevels levels with the ids "1".."5" in order, each with TasksPerLevel
\* tasks whose ids differ from one another
Structured(ls) ==
  /\ Len(ls) = NumLevels
  /\ \A k \in 1..NumLevels :
       /\ ls[k].id = StrId(k)
       /\ Len(ls[k].tasks) = TasksPerLevel
       /\ \A a \in DOMAIN ls[k].tasks : \A b \in DOMAIN ls[k].tasks :
            a # b => ls[k].tasks[a].id # ls[k].tasks[b].id

\* C27: after any sequence of toggleTask, addWarning, activateNextLevel,
\* unlockLevel, resetLevels and fetchLevels calls, the store holds 5 levels
\* with the ids 1..5 in order, each with 5 tasks of distinct ids.
C27_FiveLevelsFiveTasks == Structured(levels)

\* C27 witness: a toggleTask that completed level 1 and activated level 2 was
\* the last of MaxOps operations, and the levels differ from the template.
C27_Witness ==
  /\ ops = MaxOps
  /\ last.op = "toggleTask" /\ last.outcome = "ok" /\ last.target = 1
  /\ AllDone(levels, 1) /\ Lvl(levels, 2).isActive
  /\ levels # initialLevels
  /\ Structured(levels)

\* --------------------------------------------------------- toggleTask alone
\* The store as constructed, the remote service holding the same collection,
\* a principal with write permission; the only operation is toggleTask, one
\* call at a time, and every remote call succeeds.
InitToggles ==
  /\ levels = initialLevels
  /\ remote = initialLevels
  /\ loading = FALSE
  /\ error = Null
  /\ user \in {u \in SessionUsers : hasEditPermission(u)}
  /\ Rehydrated
  /\ flight = <<>>
  /\ last = Done("init", 0, "ok", <<>>)
  /\ ops = 0
  /\ script = <<>>
  /\ legacy = legacyInitialLevels

NextToggles ==
  /\ ToggleTask
  /\ last'.outcome # "failed"
  /\ UNCHANGED <<ops, script, legacy>>

SpecToggles == InitToggles /\ [][NextToggles]_vars

\* C28: with toggleTask alone from the template, at most one level is
\* active, a level whose tasks are all completed is not active, and the
\* levels above an active one have no completed task.
C28_OneActiveFrontier ==
  /\ Cardinality({k \in DOMAIN levels : levels[k].isActive}) <= 1
  /\ \A k \in DOMAIN levels :
       allTasksCompleted(levels[k].tasks) => ~levels[k].isActive
  /\ \A a \in DOMAIN levels : \A k \in DOMAIN levels :
       (levels[a].isActive /\ k > a) => completedTasks(levels[k]) = 0

\* C28 witness: toggleTask has completed levels 1 and 2 and two tasks of
\* level 3, which is the active one.
C28_Witness ==
  /\ last.op = "toggleTask" /\ last.outcome = "ok" /\ last.target = 3
  /\ AllDone(levels, 1) /\ AllDone(levels, 2)
  /\ Lvl(levels, 3).isActive /\ completedTasks(Lvl(levels, 3)) = 2

\* ------------------------------------------------------ frame of toggleTask
\* the tasks of level b are those of level a but for completed flags, and
\* exactly one flag differs
OneTaskFlipped(a, b) ==
  /\ DOMAIN b.tasks = DOMAIN a.tasks
  /\ \A j \in DOMAIN a.tasks :
       b.tasks[j] = [a.tasks[j] EXCEPT !.completed = b.tasks[j].completed]
  /\ Cardinality({j \in DOMAIN a.tasks :
                    b.tasks[j].completed # a.tasks[j].completed}) = 1

\* C29: a toggleTask that succeeds changes, in the target level, the
\* completed flag of one task and isActive (false exactly when all its tasks
\* are now completed); in the next level isActive only, and only to true when
\* the target level was completed; nothing in any other level: the warnings,
\* names, descriptions and other tasks are as before.
C29_ToggleFrame ==
  [][(Ran("toggleTask") /\ last'.outcome = "ok")
     => LET n == last'.target IN
        /\ DOMAIN levels' = DOMAIN levels
        /\ \A k \in DOMAIN levels :
             IF levels[k].id.val = n
               THEN /\ levels'[k] = [levels[k] EXCEPT
                                       !.isActive = levels'[k].isActive,
                                       !.tasks = levels'[k].tasks]
                    /\ OneTaskFlipped(levels[k], levels'[k])
                    /\ levels'[k].isActive = ~allTasksCompleted(levels'[k].tasks)
             ELSE IF levels[k].id.val = n + 1
               THEN /\ levels'[k] = [levels[k] EXCEPT
                                       !.isActive = levels'[k].isActive]
                    /\ levels'[k].isActive # levels[k].isActive
                         => (levels'[k].isActive /\ AllDone(levels', n))
             ELSE levels'[k] = levels[k]]_vars

\* C29 witness: after an addWarning on level 1, a toggleTask has completed
\* level 1 and activated level 2; level 1 still holds its warning.
C29_Witness ==
  /\ last.op = "toggleTask" /\ last.outcome = "ok" /\ last.target = 1
  /\ Lvl(levels, 1).warnings = 1
  /\ AllDone(levels, 1) /\ ~Lvl(levels, 1).isActive
  /\ Lvl(levels, 2).isActive

\* ---------------------------------------------------------- loading at rest
\* C30: when no operation is in flight (every operation of Spec has returned
\* in every state), loading is false.
C30_LoadingFalseAtRest == flight = <<>> => loading = FALSE

\* ------------------------------------------------- local and remote levels
SyncingOps ==
  {"toggleTask", "addWarning", "activateNextLevel", "unlockLevel", "fetchLevels"}

\* C31: from a state in which the store and the remote service hold the same
\* collection, a toggleTask, addWarning, activateNextLevel, unlockLevel or
\* fetchLevels that succeeds leaves them holding the same collection.
C31_LocalEqualsRemote ==
  [][(/\ levels = remote
      /\ \E op \in SyncingOps : Ran(op)
      /\ last'.outcome = "ok")
     => levels' = remote']_vars

\* C31 witness: the second of two operations was a toggleTask that completed
\* level 1 and activated level 2, and the remote service holds the levels
\* the store holds.
C31_Witness ==
  /\ ops = MaxOps
  /\ last.op = "toggleTask" /\ last.outcome = "ok" /\ last.target = 1
  /\ AllDone(levels, 1) /\ Lvl(levels, 2).isActive
  /\ Len(last.calls) = 4
  /\ levels = remote

\* ------------------------------------------------- overlapping addWarning
\* every call made so far has returned, and the calls on level l were
\* addWarning calls that succeeded, two of them at least
WarningsSettled(l) ==
  /\ \A c \in DOMAIN flight : flight[c].pc = "done"
  /\ \A c \in DOMAIN flight :
       flight[c].target = l
         => flight[c].op = "addWarning" /\ flight[c].outcome = "ok"
  /\ Cardinality({c \in DOMAIN flight : flight[c].target = l}) >= 2

\* C32: after overlapping addWarning calls on one level have all succeeded,
\* the warnings of the level in the store equal the warnings of its remote
\* record.
C32_WarningsMatchRemote ==
  \A l \in OverlapLevels :
    WarningsSettled(l) => Lvl(levels, l.val).warnings = Lvl(remote, l.val).warnings

\* --------------------------------------- the session during an operation
\* While level-store calls are in flight the auth store can be used: logout,
\* and a login with the credentials of the OBSERVER principal.
ObserverEmails == {email \in Emails : Text(email) = "proletariat@ministry.gov"}
StrongPasswords == {password \in Passwords : passwordRegexTest(password)}

SessionLogout == Start /\ logout
SessionLogin ==
  \E email \in ObserverEmails, password \in StrongPasswords :
    Start /\ login(email, password)
SessionLoginResume == Resume /\ loginResume

NextSession ==
  \/ NextOverlap
  \/ SessionLogout
  \/ SessionLogin
  \/ SessionLoginResume

SpecSession == InitOverlap /\ [][NextSession]_vars

\* the call c sends a PUT in this step: its GET or an earlier PUT has been
\* answered and a PUT follows
SendsPut(c) ==
  /\ c \in DOMAIN flight
  /\ flight[c].pc \in {"get", "put"}
  /\ flight'[c] # flight[c]
  /\ flight'[c].pc = "put"

\* C33: a call sends a remote write, or commits to the levels of the store,
\* only while the principal of the session has write permission.
C33_WritesOnlyWhilePermitted ==
  [][\A c \in DOMAIN flight :
       (SendsPut(c) \/ Commits(c)) => hasEditPermission(user)]_vars

\* ------------------------------------------------- auth store: the session
\* C34: in every state of the auth store, isAuthenticated is true exactly
\* when a user is bound, and a bound user is an entry of AUTHORIZED_USERS.
C34_AuthenticatedIffBound ==
  /\ isAuthenticated <=> (user # NoUser)
  /\ user # NoUser => user \in AUTHORIZED_USERS

\* C34 witness: of two overlapping login calls the first has returned and
\* bound its user while the second is still waiting.
C34_Witness ==
  /\ last.op = "login" /\ last.outcome = "ok"
  /\ Len(pending) = 1
  /\ isAuthenticated /\ user \in AUTHORIZED_USERS
  /\ user # Head(pending).user

\* the credentials pass the three checks of validateCredentials
Accepted(email, password) ==
  emailRegexTest(email) /\ passwordRegexTest(password) /\ Listed(email)

\* C35: a login whose email is malformed, whose password is weak or whose
\* email is not in the allow-list fails and sets the auth error only:
\* isAuthenticated, the user, fadeOut and the logins in progress are as they
\* were before the call.
C35_FailedLoginKeepsSession ==
  [][(LoginCalled /\ ~Accepted(script'.email, script'.password))
       => /\ last'.outcome = "failed"
          /\ authError' # Null
          /\ isAuthenticated' = isAuthenticated
          /\ user' = user
          /\ fadeOut' = fadeOut
          /\ pending' = pending]_vars

\* C35 witness: a login with a weak password failed in a session that holds
\* a user, and the user is still bound.
C35_Witness ==
  /\ last.op = "login" /\ last.outcome = "failed"
  /\ ~passwordRegexTest(script.password)
  /\ authError = WEAK_PASSWORD
  /\ isAuthenticated /\ user \in AUTHORIZED_USERS

\* C36: after logout the session stays unauthenticated until a login that
\* starts after it succeeds: when the latest call was logout, every login
\* still waiting was started before it, and its return does not authenticate
\* the session.
C36_LogoutHolds ==
  [][(last.op = "logout" /\ LoginReturned)
       => (~isAuthenticated' /\ user' = NoUser)]_vars

\* ------------------------------------- the two stores on the same toggles
\* Both stores as constructed, and each toggleTask call made on both: on the
\* remote-backed store with string ids, by a principal with write permission
\* and with every remote call succeeding, on the local-only store with the
\* same ids as numbers.
InitLegacy == InitToggles

NextLegacy ==
  /\ ops < MaxLegacyToggles
  /\ ops' = ops + 1
  /\ \E l \in LevelIds, t \in TaskIds :
       /\ toggleTask(l, t)
       /\ last'.outcome # "failed"
       /\ legacy' = legacyToggleTask(legacy, NumId(l.val), NumId(t.val))
  /\ UNCHANGED script

SpecLegacy == InitLegacy /\ [][NextLegacy]_vars

\* the two collections have the same completed flag on every task and the
\* same isActive flag on every level
SameFlags(ls, lg) ==
  \A k \in 1..NumLevels :
    /\ ls[k].isActive = lg[k].isActive
    /\ \A j \in 1..TasksPerLevel :
         ls[k].tasks[j].completed = lg[k].tasks[j].completed

\* C37 as stated: after any sequence of toggleTask calls from the template
\* both stores hold the same completed and isActive flags.
C37_StoresAgree == SameFlags(levels, legacy)

\* C37: the two stores hold the same flags as long as no level has been
\* completed (a completed level of the remote-backed store stays completed);
\* once a level is completed the remote-backed store holds it inactive and
\* the local-only store holds it active, and the next level is active in
\* the local-only store and active or completed in the remote-backed one.
C37_StoresAgreeUntilCompletion ==
  /\ (\A k \in 1..NumLevels : ~allTasksCompleted(levels[k].tasks))
       => SameFlags(levels, legacy)
  /\ \A k \in 1..NumLevels :
       allTasksCompleted(levels[k].tasks)
         => /\ ~levels[k].isActive
            /\ legacy[k].isActive
            /\ k < NumLevels
                 => /\ legacy[k + 1].isActive
                    /\ \/ levels[k + 1].isActive
                       \/ allTasksCompleted(levels[k + 1].tasks)

\* C37 witness: level 1 was completed in both stores and a task of level 1
\* toggled once more: the remote-backed store holds level 1 completed and
\* inactive, the local-only store holds it active with the task not
\* completed.
C37_Witness ==
  /\ last.op = "toggleTask" /\ last.outcome = "noop" /\ last.target = 1
  /\ allTasksCompleted(levels[1].tasks) /\ ~levels[1].isActive
  /\ legacy[1].isActive /\ ~allTasksCompleted(legacy[1].tasks)
  /\ levels[2].isActive /\ legacy[2].isActive

====
